---------------------------- MODULE Spec2Model ----------------------------
(***************************************************************************)
(* A model of CrypTen's arithmetic secret-sharing engine                   *)
(* (crypten/mpc/primitives/arithmetic.py), its ring RNG                    *)
(* (crypten/common/rng.py) and the approximation library's scoped          *)
(* configuration (crypten/common/approximations.py).                       *)
(*                                                                         *)
(* Tensors are modelled by one element: every operation of the engine is   *)
(* elementwise on the share, so one element carries the arithmetic.  The   *)
(* 64-bit ring is scaled down to RingBits bits; all ring arithmetic wraps  *)
(* two's-complement exactly as torch.long does.                            *)
(***************************************************************************)
EXTENDS Integers, Sequences, FiniteSets, TLC

VARIABLES
    n,        \* world size: comm.get().get_world_size()
    x,        \* the receiver tensor `self`: [share : rank -> ring, scale]
    y,        \* a second, private operand
    res,      \* the tensor returned by the last out-of-place operation
    ideal,    \* what the same operations give in the ring on the encodings
    last,     \* the last operation and the receiver as it was before it
    steps,    \* number of operations executed so far
    gen,      \* per party, generator(0) and generator(1): [seed, pos]
    przs,     \* the shares of the last PRZS call, per party
    ctor,     \* the last constructor call: arguments and outcome per party
    tensors,  \* the torch tensors the objects' _tensor fields refer to
    debug,    \* crypten.debug.debug_mode()
    ev,       \* per party, the calls the last operation made (div_, oracle,
              \* collectives), in order
    oracle,   \* what the Beaver oracle returned to the last operation
    status,   \* how the last operation ended: "ok" or the exception raised
    prog,     \* the sequence of operations every party executes
    trace,    \* per party, the steps its run of prog takes, in order
    issued,   \* per operation of prog and party, the calls it makes
    pc,       \* per party, the number of steps it has taken
    waiting,  \* per party, whether it is blocked inside a collective
    config,   \* the process-wide approximation config
    stack,    \* the call stack of approximation functions, innermost last
    call,     \* the current top-level call: config before it, outcome,
              \* pending exception, the iteration counts exp was run with
    exitLog   \* the config before the last with-block and after its exit

engineVars == <<n, x, y, res, ideal, last, steps>>

shareVars == <<gen, przs, ctor, tensors>>

prodVars == <<debug, ev, oracle, status>>

schedVars == <<prog, trace, issued, pc, waiting>>

configVars == <<config, stack, call, exitLog>>

vars == <<engineVars, shareVars, prodVars, schedVars, configVars>>

-----------------------------------------------------------------------------
(* Bounds of the model *)

\* Width of the ring in bits (the program's ring has 64).
RingBits == 6

\* Longest sequence of operations explored.
MaxOps == 3

\* Most PRZS calls (bare, or inside a constructor) made by each party.
MaxCalls == 2

-----------------------------------------------------------------------------
(* The ring Z_{2^L} in its signed representation *)

RECURSIVE Pow2(_)
Pow2(k) == IF k = 0 THEN 1 ELSE 2 * Pow2(k - 1)

RingSize == Pow2(RingBits)

Half == RingSize \div 2

Ring == (-Half)..(Half - 1)

\* torch.long arithmetic: the result of every +, -, * wraps into the ring.
Wrap(v) == ((v + Half) % RingSize) - Half

RECURSIVE SumTo(_, _)
SumTo(f, k) == IF k < 0 THEN 0 ELSE f[k] + SumTo(f, k - 1)

\* comm.all_reduce of the shares: their sum in the ring.
Reconstruct(t) == Wrap(SumTo(t.share, n - 1))

Ranks == 0..(n - 1)

Null == [share |-> <<>>, scale |-> 0]

-----------------------------------------------------------------------------
(* The fixed-point encoder (crypten/encoder.py is not part of the sources: *)
(* modelled from the specification, "encode rounds x*s to the nearest      *)
(* integer", "decode performs signed division by s").                      *)
(* A real number is a pair <<num, den>> with den > 0.                      *)

\* Integer division truncating toward zero (rounding_mode="trunc").
TruncDiv(a, b) == IF a >= 0 THEN a \div b ELSE -((-a) \div b)

\* a / b rounded to the nearest integer (b > 0).
RoundDiv(a, b) == (2 * a + b) \div (2 * b)

\* FixedPointEncoder(precision_bits = f).scale
ScaleOf(f) == Pow2(f)

\* encoder.encode(v) at scale s, as a ring element.
Encode(v, s) == Wrap(RoundDiv(v[1] * s, v[2]))

\* "Encoding a float with scale-1 encoder must raise": what a scale-s
\* encoder accepts.
Encodable(v, s) == s > 1 \/ v[2] = 1

\* The values of S a scale-s encoder accepts.
EncodableIn(S, s) == {v \in S : Encodable(v, s)}

-----------------------------------------------------------------------------
(* Share-level operations of ArithmeticSharedTensor *)

\* getattr(share, op)(operand) for op in add, sub, add_, sub_.
RingOp(op, a, b) == IF op = "add" THEN Wrap(a + b) ELSE Wrap(a - b)

\* Public add/sub, one rank's new share.
PublicAdditiveShare_AllRanks(op, share, rank, c) == RingOp(op, share, c)

\* Public add/sub: only rank 0 applies the encoded public value; every other
\* rank keeps its share (torch.broadcast_tensors changes the shape only).
PublicAdditiveShare(op, share, rank, c) ==
    IF rank = 0 THEN RingOp(op, share, c) ELSE share

\* Private add/sub: every rank combines its own two shares.
PrivateAdditiveShare_Swapped(op, share, yshare) ==
    RingOp(IF op = "add" THEN "sub" ELSE "add", share, yshare)

PrivateAdditiveShare(op, share, yshare) == RingOp(op, share, yshare)

\* mul / mul_ by a public Python int: each share is multiplied.
MulIntShare(share, k) == Wrap(share * k)

\* neg_: each share is negated.
NegShare(share) == Wrap(-share)

\* isinstance(y, (int, float)) or is_tensor(y); "float" stands for a Python
\* float and for a float tensor, which take the same path everywhere.
IsPublic(operand) == operand.kind \in {"int", "float", "int_tensor"}

IsPrivate(operand) == operand.kind = "private"

\* _arithmetic_function for op in {add, sub}: the returned tensor.
\* The encoder of the result is that of the receiver (self or its clone).
Additive(op, self, operand, other) ==
    IF IsPublic(operand)
    THEN [share |-> [r \in DOMAIN self.share |->
                       PublicAdditiveShare(op, self.share[r], r,
                                           Encode(operand.val, self.scale))],
          scale |-> self.scale]
    ELSE [share |-> [r \in DOMAIN self.share |->
                       PrivateAdditiveShare(op, self.share[r], other.share[r])],
          scale |-> self.scale]

\* The same operation in the ring on the reconstructed encodings.
AdditiveIdeal(op, self, operand, v, w) ==
    IF IsPublic(operand)
    THEN RingOp(op, v, Encode(operand.val, self.scale))
    ELSE RingOp(op, v, w)

-----------------------------------------------------------------------------
(* Inputs of the linear engine *)

WorldSizes == {2, 3, 5}

Scales == {ScaleOf(0), ScaleOf(2)}

PlainVals == {<<1, 1>>, <<-2, 3>>}

PublicOperands ==
    {[kind |-> "int", val |-> <<1, 1>>], [kind |-> "float", val |-> <<-5, 3>>]}

PublicInts == {-1, 3}

MaskVals == {-Half, 3}

\* A sharing of ring value v among nn parties: ranks > 0 hold the masks m,
\* rank 0 holds the rest.
Sharing(nn, v, m) ==
    [r \in 0..(nn - 1) |->
        IF r = 0 THEN Wrap(v - SumTo([k \in 0..(nn - 1) |->
                                         IF k = 0 THEN 0 ELSE m[k]], nn - 1))
        ELSE m[r]]

Sharings(nn, v) == {Sharing(nn, v, m) : m \in [1..(nn - 1) -> MaskVals]}

FixedMask(nn) == [r \in 1..(nn - 1) |-> Wrap(Half - r)]

NoOp == [op |-> "none", inplace |-> FALSE, operand |-> [kind |-> "none"],
         pre |-> Null]

\* The construction variables where no construction is modelled.
ShareIdle ==
    /\ gen = <<>>
    /\ przs = <<>>
    /\ ctor = <<>>
    /\ tensors = <<>>

\* The scheduling variables where the parties run in lockstep.
SchedIdle ==
    /\ prog = <<>>
    /\ trace = <<>>
    /\ issued = <<>>
    /\ pc = <<>>
    /\ waiting = <<>>

\* The approximation variables where no approximation is modelled.
ConfigIdle ==
    /\ config = <<>>
    /\ stack = <<>>
    /\ call = <<>>
    /\ exitLog = <<>>

\* The product variables where no product or division is modelled.
ProdIdle ==
    /\ debug = FALSE
    /\ ev = <<>>
    /\ oracle = <<>>
    /\ status = "ok"

-----------------------------------------------------------------------------
(* Spec: sequences of linear operations executed in lockstep by all parties *)

Init ==
    /\ n \in WorldSizes
    /\ \E s \in Scales : \E p \in EncodableIn(PlainVals, s) :
         \E sh \in Sharings(n, Encode(p, s)) :
            x = [share |-> sh, scale |-> s]
    /\ \E s \in Scales :
         y = [share |-> Sharing(n, Encode(<<3, 1>>, s), FixedMask(n)),
              scale |-> s]
    /\ res = Null
    /\ ideal = [x |-> Reconstruct(x), y |-> Reconstruct(y), res |-> 0]
    /\ last = NoOp
    /\ steps = 0
    /\ ShareIdle
    /\ ProdIdle
    /\ SchedIdle
    /\ ConfigIdle

\* The effect of an operation that returns `t` (whose ring value should be
\* `v`): in place the receiver is `t`; out of place the receiver is cloned
\* first and keeps its share.
Return(op, inplace, operand, t, v) ==
    /\ steps < MaxOps
    /\ steps' = steps + 1
    /\ last' = [op |-> op, inplace |-> inplace, operand |-> operand, pre |-> x]
    /\ IF inplace
       THEN /\ x' = t
            /\ res' = res
            /\ ideal' = [ideal EXCEPT !.x = v]
       ELSE /\ x' = x
            /\ res' = t
            /\ ideal' = [ideal EXCEPT !.res = v]
    /\ UNCHANGED <<n, y>>
    /\ UNCHANGED <<shareVars, prodVars, schedVars, configVars>>

\* add, add_, sub, sub_ with a public value
AddSubPublic ==
    \E op \in {"add", "sub"}, inplace \in BOOLEAN, c \in PublicOperands :
        /\ Encodable(c.val, x.scale)
        /\ Return(op, inplace, c, Additive(op, x, c, y),
                  AdditiveIdeal(op, x, c, ideal.x, ideal.y))

\* add, add_, sub, sub_ with a shared tensor
AddSubPrivate ==
    \E op \in {"add", "sub"}, inplace \in BOOLEAN :
        Return(op, inplace, [kind |-> "private"],
               Additive(op, x, [kind |-> "private"], y),
               AdditiveIdeal(op, x, [kind |-> "private"], ideal.x, ideal.y))

\* mul, mul_ with a public Python int
MulInt ==
    \E inplace \in BOOLEAN, k \in PublicInts :
        Return("mul", inplace, [kind |-> "int", val |-> <<k, 1>>],
               [share |-> [r \in Ranks |-> MulIntShare(x.share[r], k)],
                scale |-> x.scale],
               Wrap(ideal.x * k))

\* neg, neg_
Neg ==
    \E inplace \in BOOLEAN :
        Return("neg", inplace, [kind |-> "none"],
               [share |-> [r \in Ranks |-> NegShare(x.share[r])],
                scale |-> x.scale],
               Wrap(-ideal.x))

Next == AddSubPublic \/ AddSubPrivate \/ MulInt \/ Neg

Spec == Init /\ [][Next]_vars

\* The tensor the last operation returned.
Result == IF last.inplace THEN x ELSE res

ResultIdeal == IF last.inplace THEN ideal.x ELSE ideal.res

-----------------------------------------------------------------------------
(* Claims about the linear engine (checked under Spec) *)

\* C1: after any sequence of linear operations (add/sub of two shared
\* tensors, add/sub of a public value, negation, multiplication by a public
\* integer) executed in lockstep by n parties, n in {2, 3, 5}, the shares of
\* the receiver and of the returned tensor sum mod 2^L to the same sequence
\* of operations applied in the ring to the encoded plaintexts.
C1_LinearReconstruction ==
    /\ Reconstruct(x) = ideal.x
    /\ last.op # "none" => Reconstruct(Result) = ResultIdeal

\* C1 witness: five parties have run three operations, the last of them an
\* in-place subtraction of a shared tensor that changed the value.
C1_Witness ==
    /\ n = 5
    /\ steps = 3
    /\ last.op = "sub" /\ IsPrivate(last.operand) /\ last.inplace
    /\ Reconstruct(x) = ideal.x
    /\ Reconstruct(x) # Reconstruct(last.pre)

\* C4: a public addition or subtraction changes the share of rank 0 only:
\* every rank > 0 holds after it the share it held before, and the
\* reconstructed value moves by the encoded public value exactly once.
C4_PublicOpRankZeroOnly ==
    (last.op \in {"add", "sub"} /\ IsPublic(last.operand)) =>
        /\ \A r \in Ranks \ {0} : Result.share[r] = last.pre.share[r]
        /\ Reconstruct(Result) =
             RingOp(last.op, Reconstruct(last.pre),
                    Encode(last.operand.val, last.pre.scale))

\* C4 witness: three parties added a public float; rank 0's share moved and
\* rank 1 and 2 kept their nonzero shares.
C4_Witness ==
    /\ n = 3
    /\ last.op = "add" /\ last.operand.kind = "float"
    /\ Result.share[0] # last.pre.share[0]
    /\ Result.share[1] = last.pre.share[1] /\ last.pre.share[1] # 0
    /\ Result.share[2] = last.pre.share[2] /\ last.pre.share[2] # 0

-----------------------------------------------------------------------------
(* The ring RNG and the pseudo-random generators (crypten/common/rng.py)   *)

\* torch.randint(low, high): low inclusive, high exclusive.
RandLow == -(RingSize \div 2)

RandHigh == (RingSize - 1) \div 2

\* A seeded generator is a deterministic stream: its draw is a function of
\* its seed and of how many draws were made before.  Any such function
\* serves; this one mixes seed and position over the range of torch.randint.
Stream(g) ==
    RandLow + (((g.seed + 1) * (g.pos + 3) * 7 + g.pos) % (RandHigh - RandLow))

\* generate_random_ring_element(size, generator = g): the draw
RandomRingElement(g) == Stream(g)

\* ... and the generator after the draw
Advance(g) == [g EXCEPT !.pos = @ + 1]

\* PRZS, with current_share + next_share
PRZSShare_Sum(g0, g1) == Wrap(RandomRingElement(g0) + RandomRingElement(g1))

\* PRZS: current_share (from generator 0) - next_share (from generator 1)
PRZSShare(g0, g1) == Wrap(RandomRingElement(g0) - RandomRingElement(g1))

-----------------------------------------------------------------------------
(* ArithmeticSharedTensor.__init__ *)

SENTINEL == -1

None == <<>>

\* __init__ without the assertion that src is an existing party
CtorStatus_NoRangeCheck(rank, a) ==
    IF a.src = SENTINEL THEN "sentinel"
    ELSE IF rank = a.src /\ a.tensor[rank] = None THEN "AssertionError"
    ELSE IF ~a.broadcast_size /\ a.tensor[rank] = None /\ a.size[rank] = None
         THEN "AssertionError"
    ELSE IF a.tensor[rank] # None
            /\ ~Encodable(a.tensor[rank], ScaleOf(a.precision))
         THEN "EncodeError"
    ELSE "ok"

\* The outcome of the assertions of __init__ on one rank.
CtorStatus(rank, a) ==
    IF a.src = SENTINEL THEN "sentinel"
    ELSE IF ~(a.src >= 0 /\ a.src < n) THEN "AssertionError"
    ELSE IF rank = a.src /\ a.tensor[rank] = None THEN "AssertionError"
    ELSE IF ~a.broadcast_size /\ a.tensor[rank] = None /\ a.size[rank] = None
         THEN "AssertionError"
    ELSE IF a.tensor[rank] # None
            /\ ~Encodable(a.tensor[rank], ScaleOf(a.precision))
         THEN "EncodeError"
    ELSE "ok"

\* __init__ where every party that passed a tensor adds it
CtorShare_AnyTensor(rank, a, zero) ==
    IF a.tensor[rank] # None
    THEN Wrap(zero + Encode(a.tensor[rank], ScaleOf(a.precision)))
    ELSE zero

\* The share __init__ leaves on one rank: its PRZS share, plus the encoded
\* tensor on rank src.
CtorShare(rank, a, zero) ==
    IF rank = a.src
    THEN Wrap(zero + Encode(a.tensor[rank], ScaleOf(a.precision)))
    ELSE zero

-----------------------------------------------------------------------------
(* SpecShare: PRZS calls and constructor calls, in lockstep *)

Seeds == {0, 1}

Precisions == {0, 2}

\* What the parties other than src pass to the constructor.
OtherArgs == {"nothing", "size", "tensor"}

DecoyTensor == <<7, 3>>

CtorArgs(src, t, others, bs, prec) ==
    [src |-> src,
     tensor |-> [r \in Ranks |->
                   IF r = src THEN t
                   ELSE IF others = "tensor" THEN DecoyTensor ELSE None],
     size |-> [r \in Ranks |-> IF others = "size" THEN <<1>> ELSE None],
     broadcast_size |-> bs,
     precision |-> prec]

NoCtor == [args |-> <<>>, status |-> <<>>, zero |-> <<>>]

InitShare ==
    /\ n \in WorldSizes
    /\ \E link \in [Ranks -> Seeds] :
         gen = [r \in Ranks |->
                  [k \in {0, 1} |->
                     [seed |-> link[(r + k) % n], pos |-> 0]]]
    /\ przs = [r \in Ranks |-> 0]
    /\ ctor = NoCtor
    /\ tensors = <<>>
    /\ x = Null
    /\ y = Null
    /\ res = Null
    /\ ideal = [x |-> 0, y |-> 0, res |-> 0]
    /\ last = NoOp
    /\ steps = 0
    /\ ProdIdle
    /\ SchedIdle
    /\ ConfigIdle

Failed == \E r \in DOMAIN ctor.status : ctor.status[r] \notin {"ok", "sentinel"}

\* Every party calls ArithmeticSharedTensor.PRZS(size).
CallPRZS ==
    /\ steps < MaxCalls
    /\ ~Failed
    /\ steps' = steps + 1
    /\ przs' = [r \in Ranks |-> PRZSShare(gen[r][0], gen[r][1])]
    /\ gen' = [r \in Ranks |-> [k \in {0, 1} |-> Advance(gen[r][k])]]
    /\ last' = [NoOp EXCEPT !.op = "PRZS"]
    /\ UNCHANGED <<n, x, y, res, ideal, ctor, tensors>>
    /\ UNCHANGED <<prodVars, schedVars, configVars>>

\* Every party calls ArithmeticSharedTensor(tensor, size, broadcast_size,
\* precision, src) with the same src, broadcast_size and precision.  A party
\* whose assertions fail raises before it draws; the others go on.
Construct ==
    /\ steps < MaxCalls
    /\ ~Failed
    /\ ctor = NoCtor
    /\ \E src \in SENTINEL..n, t \in PlainVals \cup {None},
          others \in OtherArgs, bs \in BOOLEAN, prec \in Precisions :
         LET a == CtorArgs(src, t, others, bs, prec)
             st == [r \in Ranks |-> CtorStatus(r, a)]
             zero == [r \in Ranks |-> PRZSShare(gen[r][0], gen[r][1])]
             drawn == [r \in Ranks |-> IF st[r] = "ok" THEN zero[r] ELSE 0]
         IN  /\ ctor' = [args |-> a, status |-> st, zero |-> drawn]
             /\ przs' = drawn
             /\ gen' = [r \in Ranks |->
                          IF st[r] = "ok"
                          THEN [k \in {0, 1} |-> Advance(gen[r][k])]
                          ELSE gen[r]]
             /\ x' = [share |-> [r \in Ranks |->
                                   IF st[r] = "ok" THEN CtorShare(r, a, zero[r])
                                   ELSE 0],
                      scale |-> IF src = SENTINEL THEN 0 ELSE ScaleOf(prec)]
    /\ steps' = steps + 1
    /\ last' = [NoOp EXCEPT !.op = "__init__"]
    /\ UNCHANGED <<n, y, res, ideal, tensors>>
    /\ UNCHANGED <<prodVars, schedVars, configVars>>

NextShare == CallPRZS \/ Construct

SpecShare == InitShare /\ [][NextShare]_vars

\* The constructor completed on all parties.
Constructed ==
    /\ ctor # NoCtor
    /\ \A r \in Ranks : ctor.status[r] = "ok"

-----------------------------------------------------------------------------
(* Claims about PRZS and construction (checked under SpecShare) *)

\* C2: the n shares (current_share - next_share) of every PRZS call made in
\* lockstep sum to zero mod 2^L, the k-th call after k - 1 earlier ones
\* included, when party i's generator(1) is the stream of party i+1's
\* generator(0).
C2_PRZSSumsToZero ==
    (last.op = "PRZS" \/ (last.op = "__init__" /\ Constructed)) =>
        Wrap(SumTo(przs, n - 1)) = 0

\* C2 witness: the second call of three parties, whose shares are not all 0.
C2_Witness ==
    /\ n = 3
    /\ steps = 2
    /\ last.op = "PRZS"
    /\ \A r \in Ranks : gen[r][0].pos = 2 /\ gen[r][1].pos = 2
    /\ \E r \in Ranks : przs[r] # 0
    /\ Wrap(SumTo(przs, n - 1)) = 0

\* C3: after ArithmeticSharedTensor(tensor, src = r) completed on all
\* parties, the shares sum mod 2^L to the encoding of the tensor party r
\* supplied: party r holds its PRZS share plus that encoding, every other
\* party exactly its PRZS share, whether or not it passed a tensor itself.
C3_ConstructorShares ==
    Constructed =>
        /\ Reconstruct(x) =
             Encode(ctor.args.tensor[ctor.args.src], x.scale)
        /\ x.share[ctor.args.src] =
             Wrap(ctor.zero[ctor.args.src]
                  + Encode(ctor.args.tensor[ctor.args.src], x.scale))
        /\ \A r \in Ranks \ {ctor.args.src} : x.share[r] = ctor.zero[r]

\* C3 witness: party 1 of three is the source, the two others passed a
\* tensor of their own, and the encoded value is not zero.
C3_Witness ==
    /\ Constructed
    /\ n = 3
    /\ ctor.args.src = 1
    /\ ctor.args.tensor[0] = DecoyTensor /\ ctor.args.tensor[2] = DecoyTensor
    /\ Reconstruct(x) # 0
    /\ x.share[0] = ctor.zero[0] /\ x.share[2] = ctor.zero[2]
    /\ ctor.zero[0] # 0 /\ ctor.zero[2] # 0

-----------------------------------------------------------------------------
(* The Beaver oracle (crypten/mpc/primitives/beaver.py is not part of the  *)
(* sources: modelled from the specification's oracle contract).            *)

\* The masks of a fresh sharing, spread from one value the oracle picks.
FreshMask(nn, m) == [r \in 1..(nn - 1) |-> Wrap(m + 5 * r)]

\* The number of wraparounds of the shares of t: their integer sum is the
\* reconstructed ring element plus Theta(t) * 2^L.
Theta(t) == (SumTo(t.share, n - 1) - Reconstruct(t)) \div RingSize

\* beaver.wraps(t): a fresh sharing of the wraparound count.
BeaverWraps(t, m) == Sharing(n, Theta(t), FreshMask(n, m))

\* beaver.mul / matmul / conv* / square: a fresh sharing of the product of
\* the two reconstructed values (for one element all of them multiply).
BeaverProduct(a, b, m) ==
    Sharing(n, Wrap(Reconstruct(a) * Reconstruct(b)), FreshMask(n, m))

-----------------------------------------------------------------------------
(* ArithmeticSharedTensor.div_ by a public integer *)

Abs(v) == IF v < 0 THEN -v ELSE v

\* How often the call e occurs in a rank's sequence of calls.
RECURSIVE Count(_, _)
Count(e, seq) ==
    IF seq = <<>> THEN 0
    ELSE (IF Head(seq) = e THEN 1 ELSE 0) + Count(e, Tail(seq))

\* div_ without the wraparound correction for any world size
DivIntShare_NoCorrection(share, d, thetaShare) == TruncDiv(share, d)

\* One rank's share after the truncation protocol: with more than two
\* parties, self -= wraps * 4 * (int(2 ** 62) // y); with two, truncation
\* alone.  thetaShare is this rank's share of beaver.wraps(self).
DivIntShare(share, d, thetaShare) ==
    IF n > 2
    THEN Wrap(TruncDiv(share, d)
              - Wrap(Wrap(thetaShare * 4) * (Pow2(RingBits - 2) \div d)))
    ELSE TruncDiv(share, d)

\* div_ where rank 0 skips the wraps call
DivIntEvents_RankZeroSkips(rank, dbg) ==
    <<"div_">> \o (IF dbg THEN <<"all_reduce">> ELSE <<>>)
               \o (IF n > 2 /\ rank # 0 THEN <<"beaver.wraps">> ELSE <<>>)
               \o (IF dbg THEN <<"all_reduce">> ELSE <<>>)

\* The calls one rank makes inside div_(int): get_plain_text (an all_reduce)
\* before and after in debug mode, beaver.wraps with more than two parties.
DivIntEvents(rank, dbg) ==
    <<"div_">> \o (IF dbg THEN <<"all_reduce">> ELSE <<>>)
               \o (IF n > 2 THEN <<"beaver.wraps">> ELSE <<>>)
               \o (IF dbg THEN <<"all_reduce">> ELSE <<>>)

\* The debug check with the tolerance taken on the quotient:
\* abs(get_plain_text() - tensor / y) <= 1.0
DebugCheckPasses_OnQuotient(before, after, d, scale) ==
    Abs(after * d - before) <= scale * d

\* The debug check of div_: abs(get_plain_text() * y - tensor) < 1.0, where
\* get_plain_text decodes with the tensor's scale.
DebugCheckPasses(before, after, d, scale) ==
    Abs(after * d - before) < scale

\* div_(d) for a public integer d on tensor t: the tensor it leaves, the
\* calls of each rank, and how it ends.  theta is the sharing beaver.wraps
\* returned (unused with two parties).
DivInt(t, d, theta, dbg) ==
    LET new == [share |-> [r \in Ranks |->
                             DivIntShare(t.share[r], d, theta[r])],
                scale |-> t.scale]
    IN  [t |-> new,
         ev |-> [r \in Ranks |-> DivIntEvents(r, dbg)],
         status |-> IF dbg /\ ~DebugCheckPasses(Reconstruct(t),
                                                Reconstruct(new), d, t.scale)
                    THEN "ValueError" ELSE "ok"]

-----------------------------------------------------------------------------
(* SpecDiv: one division by a public integer, from every sharing *)

Divisors == {2, 3, 17}

DivPlainVals == {<<5, 1>>, <<-7, 3>>}

WideMaskVals == {-Half, -1, Half - 1}

OracleMasks == {-Half, 3}

\* Every sharing for two and three parties; for more, every sharing whose
\* masks are extreme or small.
AllSharings(nn, v) ==
    IF nn <= 3
    THEN {Sharing(nn, v, m) : m \in [1..(nn - 1) -> Ring]}
    ELSE {Sharing(nn, v, m) : m \in [1..(nn - 1) -> WideMaskVals]}

\* The plaintext the receiver of the division encodes.
Plain == ideal.plain

InitDiv ==
    /\ n \in WorldSizes
    /\ debug \in BOOLEAN
    /\ \E s \in Scales : \E p \in EncodableIn(DivPlainVals, s) :
         /\ \E sh \in AllSharings(n, Encode(p, s)) :
              x = [share |-> sh, scale |-> s]
         /\ ideal = [x |-> Encode(p, s), plain |-> p]
    /\ y = Null
    /\ res = Null
    /\ last = NoOp
    /\ steps = 0
    /\ ev = [r \in Ranks |-> <<>>]
    /\ oracle = <<>>
    /\ status = "ok"
    /\ ShareIdle
    /\ SchedIdle
    /\ ConfigIdle

\* x.div_(d) for a public integer d >= 2, on all parties.
DivPublicInt ==
    /\ steps = 0
    /\ \E d \in Divisors, m \in OracleMasks :
         LET theta == BeaverWraps(x, m)
             out == DivInt(x, d, theta, debug)
         IN  /\ x' = out.t
             /\ ev' = out.ev
             /\ status' = out.status
             /\ oracle' = [theta |-> IF n > 2 THEN theta
                                     ELSE [r \in Ranks |-> 0]]
             /\ last' = [op |-> "div", inplace |-> TRUE,
                         operand |-> [kind |-> "int", val |-> <<d, 1>>],
                         pre |-> x]
    /\ steps' = steps + 1
    /\ UNCHANGED <<n, y, res, ideal, debug>>
    /\ UNCHANGED <<shareVars, schedVars, configVars>>

NextDiv == DivPublicInt

SpecDiv == InitDiv /\ [][NextDiv]_vars

\* The divisor of the division just made.
Divisor == last.operand.val[1]

\* The decoded reconstruction of x is within 1.0 of Plain / Divisor:
\* |R / s - p / d| <= 1, cleared of fractions.
DecodedWithinOne ==
    Abs(Reconstruct(x) * Plain[2] * Divisor - Plain[1] * x.scale)
        <= x.scale * Plain[2] * Divisor

\* The wraparound count of the shares the division started from.
ThetaBefore == (SumTo(last.pre.share, n - 1) - Reconstruct(last.pre)) \div RingSize

-----------------------------------------------------------------------------
(* Claims about division by a public integer (checked under SpecDiv) *)

\* C6: with world_size = 2, for every divisor y >= 2, every plaintext and
\* every pair of shares that sum mod 2^L to its encoding, div_(y) yields
\* shares whose decoded reconstruction is within 1.0 of p / y.
C6_TwoPartyDivWithinOne ==
    (n = 2 /\ last.op = "div") => DecodedWithinOne

C7_WitnessScale ==
    /\ n = 3
    /\ last.op = "div"
    /\ ThetaBefore = 0
    /\ x.scale = 4
    /\ DecodedWithinOne

\* The decoded result is within 1.0 of the decoded pre-division tensor
\* divided by the divisor: |R' / s - (R / s) / d| <= 1, cleared of fractions.
WithinOneOfQuotient ==
    Abs(Reconstruct(x) * Divisor - Reconstruct(last.pre)) <= x.scale * Divisor

\* C17 as claimed: in debug mode div_ by a public integer raises only when
\* the decoded result is not within 1.0 of the pre-division plaintext divided
\* by y, a result within 1.0 of it never raises, and in release mode there
\* is no check and no reveal.
C17_Original ==
    last.op = "div" =>
        /\ debug => (status = "ValueError" <=> ~WithinOneOfQuotient)
        /\ ~debug => /\ status = "ok"
                     /\ \A r \in Ranks : Count("all_reduce", ev[r]) = 0

\* C17 as amended: in debug mode div_ by a public integer y raises
\* ValueError exactly when |decoded result * y - pre-division plaintext| is
\* not below 1.0, that is when the decoded result is not strictly within
\* 1.0 / y of the pre-division plaintext divided by y, after the shares were
\* divided and with two reveals made; in release mode there is no check and
\* no reveal.
C17_DebugCheckOnProduct ==
    last.op = "div" =>
        /\ debug =>
             /\ status = "ValueError" <=>
                  Abs(Reconstruct(x) * Divisor - Reconstruct(last.pre))
                      >= x.scale
             /\ status \in {"ok", "ValueError"}
             /\ \A r \in Ranks : Count("all_reduce", ev[r]) = 2
        /\ ~debug => /\ status = "ok"
                     /\ \A r \in Ranks : Count("all_reduce", ev[r]) = 0
        /\ \A r \in Ranks :
             x.share[r] = DivIntShare(last.pre.share[r], Divisor,
                                      oracle.theta[r])

\* C17 witness: two parties in debug mode divided by 3; the decoded result
\* is within 1.0 of the quotient, and div_ raised.
C17_Witness ==
    /\ n = 2 /\ debug
    /\ last.op = "div" /\ Divisor = 3
    /\ status = "ValueError"
    /\ WithinOneOfQuotient
    /\ ThetaBefore = 0

\* C17 witness of a passing check: debug mode, the division returned.
C17_WitnessPasses ==
    /\ debug
    /\ last.op = "div" /\ status = "ok"
    /\ x.scale > 1
    /\ Reconstruct(x) * Divisor # Reconstruct(last.pre)

-----------------------------------------------------------------------------
(* Product operations: _arithmetic_function for mul, matmul, conv*; mul,   *)
(* mul_, square_                                                           *)

ProductOps ==
    {"mul", "matmul", "conv1d", "conv2d", "conv_transpose1d",
     "conv_transpose2d"}

NoEvents == [r \in Ranks |-> <<>>]

ZeroShares == [r \in Ranks |-> 0]

\* What a call returns: the tensor, each rank's calls, how it ended, and
\* what the oracle handed out on the way (the product before the division,
\* the wraparound count's shares).
Outcome(t, events, st, mid, theta) ==
    [t |-> t, ev |-> events, status |-> st, mid |-> mid, theta |-> theta]

\* The rescaling block without any division
ProductRescale_Never(self, other, operand, mid, theta, dbg) ==
    Outcome([share |-> mid, scale |-> self.scale], NoEvents, "ok", mid,
            ZeroShares)

\* "Scale by encoder scale if necessary" (the end of _arithmetic_function):
\* self is the receiver, mid the shares of the product just computed.
ProductRescale(self, other, operand, mid, theta, dbg) ==
    LET result == [share |-> mid, scale |-> self.scale]
        divided == DivInt(result, result.scale, theta, dbg)
        rescaled == Outcome(divided.t, divided.ev, divided.status, mid, theta)
    IN  IF IsPublic(operand)
        THEN IF self.scale > 1
             THEN rescaled
             ELSE Outcome(result, NoEvents, "ok", mid, ZeroShares)
        ELSE IF self.scale > 1 /\ other.scale > 1
             THEN rescaled
             ELSE IF self.scale > 1
                  THEN Outcome(result, NoEvents, "ok", mid, ZeroShares)
                  ELSE Outcome([share |-> mid, scale |-> other.scale],
                               NoEvents, "ok", mid, ZeroShares)

\* One rank's share of the product with the encoded public value c.
MulPublicShare(share, c) == Wrap(share * c)

\* _arithmetic_function(y, op) for a product op: m and m2 are the masks the
\* oracle picks for the product and for the wraparound count.
ArithmeticProduct(op, self, operand, other, m, m2, dbg) ==
    LET mid == IF IsPublic(operand)
               THEN [r \in Ranks |->
                       MulPublicShare(self.share[r],
                                      Encode(operand.val, self.scale))]
               ELSE BeaverProduct(self, other, m)
        theta == BeaverWraps([share |-> mid, scale |-> self.scale], m2)
        out == ProductRescale(self, other, operand, mid, theta, dbg)
        first == IF IsPublic(operand) THEN <<>> ELSE <<"beaver." \o op>>
    IN  [out EXCEPT !.ev = [r \in Ranks |-> first \o out.ev[r]]]

\* mul / mul_ that sends a Python int through _arithmetic_function as well
Mul_NoIntShortcut(inplace, self, operand, other, m, m2, dbg) ==
    ArithmeticProduct("mul", self, operand, other, m, m2, dbg)

\* mul(y) / mul_(y): a Python int (for mul_, an int tensor too) multiplies
\* the shares directly; everything else goes through _arithmetic_function.
Mul(inplace, self, operand, other, m, m2, dbg) ==
    IF operand.kind = "int" \/ (inplace /\ operand.kind = "int_tensor")
    THEN Outcome([share |-> [r \in Ranks |->
                               MulIntShare(self.share[r], operand.val[1])],
                  scale |-> self.scale],
                 NoEvents, "ok", ZeroShares, ZeroShares)
    ELSE ArithmeticProduct("mul", self, operand, other, m, m2, dbg)

\* square_(): beaver.square(self).div_(self.encoder.scale).share
Square(self, m, m2, dbg) ==
    LET mid == BeaverProduct(self, self, m)
        theta == BeaverWraps([share |-> mid, scale |-> self.scale], m2)
        divided == DivInt([share |-> mid, scale |-> self.scale], self.scale,
                          theta, dbg)
    IN  Outcome(divided.t,
                [r \in Ranks |-> <<"beaver.square">> \o divided.ev[r]],
                divided.status, mid, theta)

-----------------------------------------------------------------------------
(* SpecProd: product operations in lockstep *)

\* Longest sequence of product operations explored.
MaxProdOps == 2

ProductOperands ==
    {[kind |-> "private"],
     [kind |-> "float", val |-> <<-5, 3>>],
     [kind |-> "int_tensor", val |-> <<3, 1>>],
     [kind |-> "int", val |-> <<3, 1>>]}

\* The scales of the second operand: those of the receiver and another
\* scale greater than 1.
OperandScales == Scales \cup {ScaleOf(1)}

InitProd ==
    /\ n \in WorldSizes
    /\ debug \in BOOLEAN
    /\ \E s \in Scales : \E p \in EncodableIn(PlainVals, s) :
         x = [share |-> Sharing(n, Encode(p, s), FreshMask(n, 3)),
              scale |-> s]
    /\ \E s \in OperandScales :
         y = [share |-> Sharing(n, Encode(<<3, 1>>, s), FixedMask(n)),
              scale |-> s]
    /\ res = Null
    /\ ideal = [x |-> Reconstruct(x), y |-> Reconstruct(y), res |-> 0]
    /\ last = NoOp
    /\ steps = 0
    /\ ev = NoEvents
    /\ oracle = [mid |-> ZeroShares, theta |-> ZeroShares]
    /\ status = "ok"
    /\ ShareIdle
    /\ SchedIdle
    /\ ConfigIdle

\* The effect of a product operation that ended as `out`.  An in-place
\* operation works on the receiver itself, so the receiver holds whatever
\* the operation had written when it raised.
ReturnProd(op, inplace, operand, out) ==
    /\ steps < MaxProdOps
    /\ status = "ok"
    /\ steps' = steps + 1
    /\ last' = [op |-> op, inplace |-> inplace, operand |-> operand, pre |-> x]
    /\ ev' = out.ev
    /\ status' = out.status
    /\ oracle' = [mid |-> out.mid, theta |-> out.theta]
    /\ IF inplace
       THEN x' = out.t /\ res' = res
       ELSE x' = x /\ res' = IF out.status = "ok" THEN out.t ELSE Null
    /\ UNCHANGED <<n, y, ideal, debug>>
    /\ UNCHANGED <<shareVars, schedVars, configVars>>

\* mul, mul_
MulOp ==
    \E inplace \in BOOLEAN, c \in ProductOperands, m \in OracleMasks :
        /\ IsPublic(c) => Encodable(c.val, x.scale)
        /\ ReturnProd("mul", inplace, c, Mul(inplace, x, c, y, m, m, debug))

\* matmul, conv1d, conv2d, conv_transpose1d, conv_transpose2d with a shared
\* tensor or a plaintext tensor
MatmulConvOp ==
    \E op \in ProductOps \ {"mul"}, m \in OracleMasks,
       c \in {o \in ProductOperands : o.kind \in {"private", "float"}} :
        /\ IsPublic(c) => Encodable(c.val, x.scale)
        /\ ReturnProd(op, FALSE, c,
                      ArithmeticProduct(op, x, c, y, m, m, debug))

\* square, square_: the receiver changes only if get_plain_text and div_
\* inside ended well, since the share is assigned last.
SquareOp ==
    \E inplace \in BOOLEAN, m \in OracleMasks :
        LET out == Square(x, m, m, debug)
        IN  ReturnProd("square", inplace, [kind |-> "none"],
                       IF out.status = "ok" THEN out
                       ELSE [out EXCEPT !.t = x])

NextProd == MulOp \/ MatmulConvOp \/ SquareOp

SpecProd == InitProd /\ [][NextProd]_vars

\* The last operation formed a scale-s^2 product of two scale-s operands,
\* s > 1: a shared tensor times a shared tensor of the same scale, a square,
\* or a shared tensor times a public value encoded at its scale.
ScaledProduct ==
    /\ last.op \in ProductOps \cup {"square"}
    /\ last.pre.scale > 1
    /\ \/ last.op = "square"
       \/ IsPrivate(last.operand) /\ y.scale = last.pre.scale
       \/ /\ IsPublic(last.operand)
          /\ last.operand.kind # "int"
          /\ ~(last.inplace /\ last.operand.kind = "int_tensor")

-----------------------------------------------------------------------------
(* Claims about product operations (checked under SpecProd) *)

\* C5: for mul, matmul and square of two scale-s shared operands (s > 1)
\* and for mul/matmul by a public float or plaintext tensor encoded at scale
\* s, the scale-s^2 product is divided by s exactly once before the
\* operation returns, and the returned tensor's scale is s.
C5_ProductRescaledOnce ==
    /\ (ScaledProduct /\ status = "ok") =>
          /\ Result.scale = last.pre.scale
          /\ \A r \in Ranks :
               /\ Count("div_", ev[r]) = 1
               /\ Result.share[r] =
                    DivIntShare(oracle.mid[r], last.pre.scale,
                                oracle.theta[r])
    /\ (/\ last.op \in ProductOps \cup {"square"}
        /\ status = "ok"
        /\ IsPrivate(last.operand) => y.scale = last.pre.scale) =>
          Result.scale = last.pre.scale

\* C5 witness: three parties multiplied two scale-4 shared tensors out of
\* place; the product was divided and the division changed the shares.
C5_Witness ==
    /\ n = 3
    /\ ScaledProduct /\ status = "ok"
    /\ last.op = "mul" /\ IsPrivate(last.operand) /\ ~last.inplace
    /\ res.scale = 4
    /\ \A r \in Ranks : Count("div_", ev[r]) = 1
    /\ \E r \in Ranks : res.share[r] # oracle.mid[r]

\* The larger of two scales.
LargerScale(s1, s2) == IF s1 >= s2 THEN s1 ELSE s2

\* C22: a product of two private operands (mul, matmul, conv*) is rescaled
\* by the larger of the two encoder scales and carries an encoder with which
\* the reconstructed result decodes to the product of the two plaintexts,
\* for every combination of operand scales: the product of the encodings
\* has scale s1 * s2, so if it is divided, then by the larger scale, and
\* the result's scale times the divisor is s1 * s2.
C22_PrivateProductScale ==
    (last.op \in ProductOps /\ IsPrivate(last.operand) /\ status = "ok") =>
        LET s1 == last.pre.scale
            s2 == y.scale
            divided == s1 > 1 /\ s2 > 1
        IN  /\ \A r \in Ranks :
                 /\ Count("div_", ev[r]) = IF divided THEN 1 ELSE 0
                 /\ Result.share[r] =
                      IF divided
                      THEN DivIntShare(oracle.mid[r], LargerScale(s1, s2),
                                       oracle.theta[r])
                      ELSE oracle.mid[r]
            /\ Result.scale * (IF divided THEN LargerScale(s1, s2) ELSE 1)
                 = s1 * s2

-----------------------------------------------------------------------------
(* The calls each operation makes on one rank, and the parties' schedule *)

\* Collective communication and Beaver-oracle calls: every party must make
\* the same one for any of them to return.
Collectives ==
    {"broadcast_obj", "all_reduce", "reduce", "beaver.wraps"}
        \cup {"beaver." \o op : op \in ProductOps \cup {"square"}}

\* __init__: the size is broadcast when broadcast_size is set, by every rank
\* that got past the assertions and the encoding.
CtorEvents(rank, a) ==
    IF CtorStatus(rank, a) = "ok" /\ a.broadcast_size
    THEN <<"broadcast_obj">> ELSE <<>>

\* _arithmetic_function for add / sub: no communication on any rank.
AdditiveEvents(rank, operand) == <<>>

\* reveal(dst) and get_plain_text(dst)
RevealEvents(rank, dst) ==
    IF dst = None THEN <<"all_reduce">> ELSE <<"reduce">>

Op(kind, operand, args) == [kind |-> kind, operand |-> operand, args |-> args]

NoOperand == [kind |-> "none"]

OkStatus == {"ok", "sentinel"}

\* What one operation of a program does when every party runs it on its
\* share of t: the tensor it leaves, each rank's calls, each rank's status.
PerRank(out) ==
    [t |-> out.t, ev |-> out.ev, status |-> [r \in Ranks |-> out.status]]

SchedOutcome(o, t, other, dbg) ==
    LET theta == BeaverWraps(t, 3)
        local(tt) == [t |-> tt,
                      ev |-> [r \in Ranks |-> AdditiveEvents(r, o.operand)],
                      status |-> [r \in Ranks |-> "ok"]]
    IN  IF o.kind = "new"
        THEN [t |-> t,
              ev |-> [r \in Ranks |-> CtorEvents(r, o.args)],
              status |-> [r \in Ranks |-> CtorStatus(r, o.args)]]
        ELSE IF IsPublic(o.operand) /\ ~Encodable(o.operand.val, t.scale)
        THEN [t |-> t, ev |-> NoEvents,
              status |-> [r \in Ranks |-> "EncodeError"]]
        ELSE IF o.kind = "add"
        THEN local(Additive("add", t, o.operand, other))
        ELSE IF o.kind = "neg"
        THEN local([share |-> [r \in Ranks |-> NegShare(t.share[r])],
                    scale |-> t.scale])
        ELSE IF o.kind = "reshape"
        THEN local(t)
        ELSE IF o.kind = "mul"
        THEN PerRank(Mul(TRUE, t, o.operand, other, 3, 3, dbg))
        ELSE IF o.kind = "matmul"
        THEN PerRank([ArithmeticProduct("matmul", t, o.operand, other, 3, 3,
                                        dbg) EXCEPT !.t = t])
        ELSE IF o.kind = "square"
        THEN PerRank(Square(t, 3, 3, dbg))
        ELSE IF o.kind = "div"
        THEN PerRank(DivInt(t, o.operand.val[1], theta, dbg))
        ELSE [t |-> t,
              ev |-> [r \in Ranks |-> RevealEvents(r, o.args)],
              status |-> [r \in Ranks |-> "ok"]]

\* The outcomes of the operations of program p in order, from tensor t, up
\* to an operation that raises on every party.
RECURSIVE Exec(_, _, _, _)
Exec(p, t, other, dbg) ==
    IF p = <<>> THEN <<>>
    ELSE CHOOSE outs \in
             {<<out>> \o
                (IF \A r \in Ranks : out.status[r] \notin OkStatus
                 THEN <<>> ELSE Exec(Tail(p), out.t, other, dbg)) :
              out \in {SchedOutcome(Head(p), t, other, dbg)}} : TRUE

\* The steps of one rank: the calls of each operation, then its return; a
\* raise ends the run of that rank.
RECURSIVE TraceOf(_, _)
TraceOf(rank, outs) ==
    IF outs = <<>> THEN <<>>
    ELSE Head(outs).ev[rank] \o
         (IF Head(outs).status[rank] \in OkStatus
          THEN <<"return">> \o TraceOf(rank, Tail(outs))
          ELSE <<"raise">>)

-----------------------------------------------------------------------------
(* SpecSched: the parties run one program, each at its own pace *)

\* Number of operations in the program.
MaxProgLen == 2

SchedSizes == {2, 3}

SchedOps ==
    {Op("new", NoOperand, CtorArgs(0, t, "size", bs, 2)) :
        t \in {<<1, 1>>, None}, bs \in BOOLEAN}
    \cup {Op("add", c, None) :
            c \in {[kind |-> "private"], [kind |-> "float", val |-> <<-5, 3>>]}}
    \cup {Op("mul", c, None) : c \in ProductOperands \ {[kind |-> "int_tensor", val |-> <<3, 1>>]}}
    \cup {Op("neg", NoOperand, None), Op("reshape", NoOperand, None),
          Op("matmul", [kind |-> "private"], None),
          Op("square", NoOperand, None),
          Op("div", [kind |-> "divisor", val |-> <<2, 1>>], None),
          Op("reveal", NoOperand, None), Op("reveal", NoOperand, <<0>>)}

Programs == [1..MaxProgLen -> SchedOps]

InitSched ==
    /\ n \in SchedSizes
    /\ debug \in BOOLEAN
    /\ \E s \in Scales :
         /\ x = [share |-> Sharing(n, Encode(<<1, 1>>, s), FreshMask(n, 3)),
                 scale |-> s]
         /\ y = [share |-> Sharing(n, Encode(<<3, 1>>, s), FixedMask(n)),
                 scale |-> s]
    /\ prog \in Programs
    /\ \E outs \in {Exec(prog, x, y, debug)} :
         /\ trace = [r \in Ranks |-> TraceOf(r, outs)]
         /\ issued = [i \in 1..Len(outs) |-> outs[i].ev]
    /\ pc = [r \in Ranks |-> 0]
    /\ waiting = [r \in Ranks |-> FALSE]
    /\ res = Null
    /\ ideal = [x |-> Reconstruct(x), y |-> Reconstruct(y), res |-> 0]
    /\ last = NoOp
    /\ steps = 0
    /\ ev = NoEvents
    /\ oracle = <<>>
    /\ status = "ok"
    /\ ShareIdle
    /\ ConfigIdle

Running(r) == pc[r] < Len(trace[r])

NextStep(r) == trace[r][pc[r] + 1]

SchedFrame ==
    /\ UNCHANGED <<prog, trace, issued>>
    /\ UNCHANGED <<engineVars, shareVars, prodVars, configVars>>

\* A party takes a step that needs no other party.
Step(r) ==
    /\ Running(r)
    /\ NextStep(r) \notin Collectives \cup {"raise"}
    /\ pc' = [pc EXCEPT ![r] = @ + 1]
    /\ UNCHANGED waiting
    /\ SchedFrame

\* A party's operation raises: the party leaves the program.
Raise(r) ==
    /\ Running(r)
    /\ NextStep(r) = "raise"
    /\ pc' = [pc EXCEPT ![r] = @ + 1]
    /\ UNCHANGED waiting
    /\ SchedFrame

\* A party enters a collective or an oracle call and blocks.
Arrive(r) ==
    /\ Running(r)
    /\ NextStep(r) \in Collectives
    /\ ~waiting[r]
    /\ waiting' = [waiting EXCEPT ![r] = TRUE]
    /\ UNCHANGED pc
    /\ SchedFrame

\* Every party is inside the same collective: it returns on all of them.
Complete ==
    /\ \A r \in Ranks : waiting[r] /\ NextStep(r) = NextStep(0)
    /\ pc' = [r \in Ranks |-> pc[r] + 1]
    /\ waiting' = [r \in Ranks |-> FALSE]
    /\ SchedFrame

NextSched ==
    \/ \E r \in Ranks : Step(r)
    \/ \E r \in Ranks : Raise(r)
    \/ \E r \in Ranks : Arrive(r)
    \/ Complete

SpecSched == InitSched /\ [][NextSched]_vars

CollectivesOf(seq) == SelectSeq(seq, LAMBDA e : e \in Collectives)

AllDone == \A r \in Ranks : ~Running(r)

\* Some party is blocked inside a collective that can never return.
Hung == (\E r \in Ranks : waiting[r]) /\ ~ENABLED NextSched

SameCollectives ==
    \A r \in Ranks : CollectivesOf(trace[r]) = CollectivesOf(trace[0])

\* Every constructor call of the program passes its checks on every party.
CtorChecksPass ==
    \A i \in 1..Len(prog) :
        prog[i].kind = "new" =>
            \A r \in Ranks : CtorStatus(r, prog[i].args) = "ok"

\* The operations the suspension-point list counts as local.
ListedLocal(o) ==
    \/ o.kind \in {"add", "neg", "reshape"}
    \/ o.kind = "mul" /\ o.operand.kind \in {"int", "float"}

MulByFloat(o) == o.kind = "mul" /\ o.operand.kind = "float"

-----------------------------------------------------------------------------
(* Claims about collectives (checked under SpecSched) *)

C9_Original ==
    \A i \in DOMAIN issued : \A r \in Ranks :
        ListedLocal(prog[i]) => CollectivesOf(issued[i][r]) = <<>>

\* C9: add/sub of shared tensors or of a public value, multiplication by a
\* public integer, negation and reshape issue no collective and no oracle
\* call on any rank; multiplication by a public float at encoder scale > 1
\* issues exactly the calls of its rescale: beaver.wraps when n > 2, and a
\* reveal before and after it in debug mode.
C9_LocalOpsIssueNoCollective ==
    \A i \in DOMAIN issued : \A r \in Ranks :
        ListedLocal(prog[i]) =>
            CollectivesOf(issued[i][r]) =
                IF MulByFloat(prog[i]) /\ x.scale > 1
                THEN (IF debug THEN <<"all_reduce">> ELSE <<>>)
                     \o (IF n > 2 THEN <<"beaver.wraps">> ELSE <<>>)
                     \o (IF debug THEN <<"all_reduce">> ELSE <<>>)
                ELSE <<>>

\* C9 witness: three parties have finished a multiplication by a public
\* float, which called beaver.wraps, and a negation, which called nothing.
C9_Witness ==
    /\ n = 3 /\ ~debug
    /\ AllDone
    /\ Len(issued) = 2
    /\ MulByFloat(prog[1]) /\ prog[2].kind = "neg"
    /\ \A r \in Ranks :
         /\ CollectivesOf(issued[1][r]) = <<"beaver.wraps">>
         /\ issued[2][r] = <<>>
         /\ trace[r][Len(trace[r])] = "return"

-----------------------------------------------------------------------------
(* The approximation config and its scoped overrides *)

\* ApproxConfig(): the declared keys with their defaults.
DefaultConfig ==
    [exp_iterations |-> 8,
     reciprocal_method |-> "NR",
     reciprocal_nr_iters |-> 10,
     reciprocal_log_iters |-> 1,
     reciprocal_all_pos |-> FALSE,
     reciprocal_initial |-> None,
     sqrt_nr_iters |-> 3,
     sqrt_nr_initial |-> None,
     sigmoid_tanh_method |-> "reciprocal",
     sigmoid_tanh_terms |-> 32,
     log_iterations |-> 2,
     log_exp_iterations |-> 8,
     log_order |-> 8,
     trig_iterations |-> 10,
     erf_iterations |-> 8]

\* ConfigBase.__enter__: set each (key, value) pair in order.
RECURSIVE Apply(_, _)
Apply(cfg, pairs) ==
    IF pairs = <<>> THEN cfg
    ELSE Apply([cfg EXCEPT ![Head(pairs)[1]] = Head(pairs)[2]], Tail(pairs))

\* ConfigBase.__enter__: the old value of each key, kept for __exit__.
Saved(cfg, pairs) ==
    [i \in DOMAIN pairs |-> <<pairs[i][1], cfg[pairs[i][1]]>>]

\* What a function does: leaf operations before its with-block, the pairs
\* the block overrides (none: no block) and whether it does so through a
\* ConfigManager, the function it calls inside, the leaf operations after
\* that call, and the exception it raises instead of all this.
Plan(pre, with, callee, inside) ==
    [pre |-> pre, with |-> with, scoped |-> TRUE, callee |-> callee,
     inside |-> inside, raises |-> "none"]

Raises(e) ==
    [pre |-> <<>>, with |-> <<>>, scoped |-> TRUE, callee |-> None,
     inside |-> <<>>, raises |-> e]

\* log(self, input_in_01)
LogPlan(input_in_01, cfg) ==
    IF input_in_01
    THEN Plan(<<"mul">>, <<>>, <<"log", FALSE>>, <<"sub">>)
    ELSE Plan(<<"div", "exp">>,
              <<<<"exp_iterations", cfg.log_exp_iterations>>>>,
              None,
              [i \in 1..cfg.log_iterations |-> "exp"])

\* reciprocal whose input_in_01 branch makes its call without the override
\* of reciprocal_all_pos
ReciprocalPlan_NoAllPos(input_in_01, cfg) ==
    IF input_in_01
    THEN Plan(<<"mul">>, <<>>, <<"reciprocal", FALSE>>, <<"mul">>)
    ELSE IF ~cfg.reciprocal_all_pos
    THEN Plan(<<"sign", "mul">>, <<<<"reciprocal_all_pos", TRUE>>>>,
              <<"reciprocal", FALSE>>, <<"mul">>)
    ELSE IF cfg.reciprocal_method = "NR"
    THEN Plan(IF cfg.reciprocal_initial = None THEN <<"exp">> ELSE <<>>,
              <<>>, None,
              [i \in 1..cfg.reciprocal_nr_iters |-> "nr_update"])
    ELSE IF cfg.reciprocal_method = "log"
    THEN Plan(<<>>, <<<<"log_iters", cfg.reciprocal_log_iters>>>>,
              <<"log", FALSE>>, <<"exp">>)
    ELSE Raises("ValueError")

\* reciprocal(self, input_in_01); in the NR method each pass of the loop is
\* one update result <- 2 * result - result^2 * self.
ReciprocalPlan(input_in_01, cfg) ==
    IF input_in_01
    THEN Plan(<<"mul">>, <<<<"reciprocal_all_pos", TRUE>>>>,
              <<"reciprocal", FALSE>>, <<"mul">>)
    ELSE IF ~cfg.reciprocal_all_pos
    THEN Plan(<<"sign", "mul">>, <<<<"reciprocal_all_pos", TRUE>>>>,
              <<"reciprocal", FALSE>>, <<"mul">>)
    ELSE IF cfg.reciprocal_method = "NR"
    THEN Plan(IF cfg.reciprocal_initial = None THEN <<"exp">> ELSE <<>>,
              <<>>, None,
              [i \in 1..cfg.reciprocal_nr_iters |-> "nr_update"])
    ELSE IF cfg.reciprocal_method = "log"
    THEN Plan(<<>>, <<<<"log_iters", cfg.reciprocal_log_iters>>>>,
              <<"log", FALSE>>, <<"exp">>)
    ELSE Raises("ValueError")

\* sigmoid with its keys set directly instead of through a ConfigManager
SigmoidPlan_Unscoped(arg, cfg) ==
    [Plan(<<"exp">>, <<<<"exp_iterations", 9>>, <<"reciprocal_all_pos", TRUE>>>>,
          <<"reciprocal", FALSE>>, <<>>) EXCEPT !.scoped = FALSE]

\* sigmoid(self)
SigmoidPlan(arg, cfg) ==
    IF cfg.sigmoid_tanh_method = "chebyshev"
    THEN Plan(<<"div", "tanh", "div">>, <<>>, None, <<>>)
    ELSE IF cfg.sigmoid_tanh_method = "reciprocal"
    THEN Plan(<<"_ltz", "mul", "exp">>,
              <<<<"exp_iterations", 9>>, <<"reciprocal_nr_iters", 3>>,
                <<"reciprocal_all_pos", TRUE>>,
                <<"reciprocal_initial", <<3, 4>>>>>>,
              <<"reciprocal", FALSE>>, <<>>)
    ELSE Raises("ValueError")

\* softmax(self, dim); single: the tensor is 0-d or has one entry along dim.
SoftmaxPlan(single, cfg) ==
    IF single THEN Plan(<<>>, <<>>, None, <<>>)
    ELSE Plan(<<"max", "exp">>, <<<<"reciprocal_all_pos", TRUE>>>>,
              <<"reciprocal", FALSE>>, <<>>)

PlanOf(fn, arg, cfg) ==
    IF fn = "log" THEN LogPlan(arg, cfg)
    ELSE IF fn = "reciprocal" THEN ReciprocalPlan(arg, cfg)
    ELSE IF fn = "sigmoid" THEN SigmoidPlan(arg, cfg)
    ELSE SoftmaxPlan(arg, cfg)

-----------------------------------------------------------------------------
(* SpecConfig: calls of log, reciprocal, sigmoid and softmax *)

\* Number of top-level calls explored.
MaxTopCalls == 2

ApproxCalls ==
    {<<"log", FALSE>>, <<"log", TRUE>>, <<"reciprocal", FALSE>>,
     <<"reciprocal", TRUE>>, <<"sigmoid", FALSE>>, <<"softmax", FALSE>>,
     <<"softmax", TRUE>>}

Configs ==
    {[DefaultConfig EXCEPT !.reciprocal_method = rm,
                           !.reciprocal_all_pos = ap,
                           !.reciprocal_initial = ri,
                           !.sigmoid_tanh_method = sm,
                           !.exp_iterations = ei,
                           !.reciprocal_nr_iters = ni] :
        rm \in {"NR", "log", "newton"}, ap \in BOOLEAN, ni \in {10, 2},
        ri \in {None, <<1, 2>>},
        sm \in {"reciprocal", "chebyshev", "tanh"}, ei \in {8, 5}}

Frame(fn, arg) ==
    [fn |-> fn, arg |-> arg, phase |-> "start", todo |-> <<>>,
     plan |-> Raises("none"), saved |-> <<>>, entry |-> <<>>]

InitConfig ==
    /\ config \in Configs
    /\ stack = <<>>
    /\ call = [fn |-> "none", snap |-> config, outcome |-> "none",
               exc |-> "none", used |-> <<>>, exits |-> 0, count |-> 0,
               ops |-> <<>>, calls |-> <<>>]
    /\ exitLog = [before |-> config, after |-> config]
    /\ n = 2
    /\ x = Null
    /\ y = Null
    /\ res = Null
    /\ ideal = [x |-> 0, y |-> 0, res |-> 0]
    /\ last = NoOp
    /\ steps = 0
    /\ ShareIdle
    /\ ProdIdle
    /\ SchedIdle

Top == stack[Len(stack)]

SetTop(f) == [stack EXCEPT ![Len(stack)] = f]

Pop == SubSeq(stack, 1, Len(stack) - 1)

ConfigFrame == UNCHANGED <<engineVars, shareVars, prodVars, schedVars>>

\* The caller's code calls one of the four functions.
CallTop ==
    /\ stack = <<>>
    /\ call.count < MaxTopCalls
    /\ \E c \in ApproxCalls :
         /\ stack' = <<Frame(c[1], c[2])>>
         /\ call' = [fn |-> c[1], snap |-> config, outcome |-> "running",
                     exc |-> "none", used |-> <<>>, exits |-> 0,
                     count |-> call.count + 1, ops |-> <<>>,
                     calls |-> <<>>]
    /\ UNCHANGED <<config, exitLog>>
    /\ ConfigFrame

\* The function on top reads the config and picks its branch.
Begin ==
    /\ stack # <<>> /\ call.exc = "none"
    /\ Top.phase = "start"
    /\ LET plan == PlanOf(Top.fn, Top.arg, config)
           entered == Append(call.calls,
                             [fn |-> Top.fn, arg |-> Top.arg,
                              all_pos |-> config.reciprocal_all_pos])
       IN  IF plan.raises # "none"
           THEN /\ call' = [call EXCEPT !.exc = plan.raises,
                                        !.calls = entered]
                /\ UNCHANGED stack
           ELSE /\ stack' = SetTop([Top EXCEPT !.phase = "pre",
                                               !.plan = plan,
                                               !.todo = plan.pre])
                /\ call' = [call EXCEPT !.calls = entered]
    /\ UNCHANGED <<config, exitLog>>
    /\ ConfigFrame

\* A tensor operation of the function on top; exp runs with the
\* exp_iterations in the config at that moment.
Leaf ==
    /\ stack # <<>> /\ call.exc = "none"
    /\ Top.phase \in {"pre", "inside"}
    /\ Top.todo # <<>>
    /\ stack' = SetTop([Top EXCEPT !.todo = Tail(@)])
    /\ call' = [call EXCEPT
                  !.ops = Append(@, Head(Top.todo)),
                  !.used = IF Head(Top.todo) = "exp"
                           THEN Append(@, config.exp_iterations) ELSE @]
    /\ UNCHANGED <<config, exitLog>>
    /\ ConfigFrame

\* A tensor operation raises.
LeafFails ==
    /\ stack # <<>> /\ call.exc = "none"
    /\ Top.phase \in {"pre", "inside"}
    /\ Top.todo # <<>>
    /\ call' = [call EXCEPT !.exc = "RuntimeError"]
    /\ UNCHANGED <<config, stack, exitLog>>
    /\ ConfigFrame

\* The with statement: ConfigManager(...).__enter__().  A key that is not a
\* declared field either makes __enter__ raise or is set and unset beside
\* the declared keys, which it leaves alone.
EnterBlock ==
    /\ stack # <<>> /\ call.exc = "none"
    /\ Top.phase = "pre" /\ Top.todo = <<>>
    /\ LET pairs == Top.plan.with
           declared == \A i \in DOMAIN pairs :
                          pairs[i][1] \in DOMAIN DefaultConfig
           next == IF Top.plan.callee = None THEN "inside" ELSE "block"
           entered(cfg, saved) ==
               /\ config' = cfg
               /\ stack' = SetTop([Top EXCEPT !.phase = next,
                                              !.todo = Top.plan.inside,
                                              !.saved = saved,
                                              !.entry = config])
               /\ UNCHANGED call
       IN  IF declared
           THEN entered(Apply(config, pairs),
                        IF Top.plan.scoped THEN Saved(config, pairs)
                        ELSE <<>>)
           ELSE \/ entered(config, <<>>)
                \/ /\ call' = [call EXCEPT !.exc = "AttributeError"]
                   /\ UNCHANGED <<config, stack>>
    /\ UNCHANGED exitLog
    /\ ConfigFrame

\* The call inside the block (or, without a block, the nested call).
CallNested ==
    /\ stack # <<>> /\ call.exc = "none"
    /\ Top.phase = "block"
    /\ stack' = Append(SetTop([Top EXCEPT !.phase = "inside"]),
                       Frame(Top.plan.callee[1], Top.plan.callee[2]))
    /\ UNCHANGED <<config, call, exitLog>>
    /\ ConfigFrame

\* The frame on top is left: __exit__ restores the saved values of its
\* with-block, if it is inside one.
Leave ==
    /\ config' = Apply(config, Top.saved)
    /\ stack' = Pop
    /\ exitLog' = IF Top.entry # <<>> /\ Top.plan.with # <<>>
                  THEN [before |-> Top.entry, after |-> config']
                  ELSE exitLog

\* The function on top returns.
Return_ ==
    /\ stack # <<>> /\ call.exc = "none"
    /\ Top.phase = "inside" /\ Top.todo = <<>>
    /\ Leave
    /\ call' = [call EXCEPT
                  !.exits = IF Top.plan.with # <<>> THEN @ + 1 ELSE @,
                  !.outcome = IF Len(stack) = 1 THEN "returned" ELSE @]
    /\ ConfigFrame

\* An exception leaves the function on top.
Unwind ==
    /\ stack # <<>> /\ call.exc # "none"
    /\ Leave
    /\ call' = [call EXCEPT
                  !.exits = IF Top.entry # <<>> /\ Top.plan.with # <<>>
                            THEN @ + 1 ELSE @,
                  !.outcome = IF Len(stack) = 1 THEN "raised" ELSE @]
    /\ ConfigFrame

NextConfig ==
    \/ CallTop \/ Begin \/ Leaf \/ LeafFails \/ EnterBlock \/ CallNested
    \/ Return_ \/ Unwind

SpecConfig == InitConfig /\ [][NextConfig]_vars

-----------------------------------------------------------------------------
(* Claims about the approximation config (checked under SpecConfig) *)

\* C10: after any call to log, reciprocal, sigmoid or softmax, whether it
\* returned or raised, every key of the config has the value it had before
\* the call; and every with-block, nested or not, has left the config as it
\* was when the block was entered.
C10_ConfigRestored ==
    /\ (stack = <<>> /\ call.outcome \in {"returned", "raised"}) =>
          config = call.snap
    /\ exitLog.before = exitLog.after

\* C10 witness: sigmoid raised from inside reciprocal, under sigmoid's
\* with-block (which had set exp_iterations to 9), and the config is back to
\* an exp_iterations other than 9.
C10_Witness ==
    /\ stack = <<>>
    /\ call.fn = "sigmoid" /\ call.outcome = "raised"
    /\ call.exc = "ValueError"
    /\ call.exits >= 1
    /\ exitLog.before.exp_iterations = 5
    /\ config.exp_iterations = 5

\* C19: with reciprocal_method = "log", reciprocal computes exp(-log(x))
\* where the inner log runs config.reciprocal_log_iters Householder
\* iterations: while log runs under reciprocal's with-block the number of
\* log iterations is reciprocal_log_iters, and entering the block does not
\* fail.
C19_LogRunsReciprocalLogIters ==
    \A k \in 1..Len(stack) :
        (/\ stack[k].fn = "reciprocal"
         /\ stack[k].phase \in {"pre", "block", "inside"}
         /\ stack[k].plan.callee = <<"log", FALSE>>) =>
            /\ call.exc # "AttributeError"
            /\ (k < Len(stack) /\ stack[k + 1].phase # "start") =>
                  /\ config.log_iterations = call.snap.reciprocal_log_iters
                  /\ Count("exp", stack[k + 1].plan.inside) =
                       call.snap.reciprocal_log_iters

\* C20: sigmoid with method "reciprocal" (and reciprocal by Newton-Raphson)
\* runs with its tuned parameters in force for the whole evaluation: every
\* exponential it computes uses exp_iterations = 9, and its reciprocal runs
\* with reciprocal_nr_iters = 3, the initial guess 0.75 and all_pos = true,
\* so without a sign computation.
C20_SigmoidTunedThroughout ==
    (/\ call.fn = "sigmoid"
     /\ call.snap.sigmoid_tanh_method = "reciprocal"
     /\ call.snap.reciprocal_method = "NR") =>
        /\ \A i \in DOMAIN call.used : call.used[i] = 9
        /\ \A k \in 1..Len(stack) :
             (stack[k].fn = "reciprocal" /\ stack[k].phase # "start") =>
                /\ config.reciprocal_nr_iters = 3
                /\ config.reciprocal_initial = <<3, 4>>
                /\ config.reciprocal_all_pos
                /\ Count("sign", stack[k].plan.pre) = 0

\* The entries of reciprocal among the function entries of the call.
ReciprocalEntries == SelectSeq(call.calls, LAMBDA c : c.fn = "reciprocal")

\* C21: for every configuration with a recognised reciprocal_method and
\* either value of input_in_01, reciprocal terminates: it makes at most one
\* recursive call, which runs with reciprocal_all_pos = true and
\* input_in_01 = false; it calls sign at most once, and never when
\* reciprocal_all_pos is true or input_in_01 is set; in the NR method a call
\* that returns has made exactly reciprocal_nr_iters updates.  While it runs
\* it can always take a step, and the number of operations it makes is
\* bounded by the configured iteration counts.
C21_ReciprocalTerminates ==
    (call.fn = "reciprocal" /\ call.snap.reciprocal_method \in {"NR", "log"}) =>
        /\ Len(ReciprocalEntries) <= 2
        /\ \A k \in 2..Len(ReciprocalEntries) :
             ReciprocalEntries[k].all_pos /\ ~ReciprocalEntries[k].arg
        /\ Count("sign", call.ops) <= 1
        /\ (call.calls # <<>> /\
            (call.snap.reciprocal_all_pos \/ call.calls[1].arg)) =>
              Count("sign", call.ops) = 0
        /\ (call.outcome = "returned" /\ call.snap.reciprocal_method = "NR") =>
              Count("nr_update", call.ops) = call.snap.reciprocal_nr_iters
        /\ Len(stack) <= 3
        /\ Len(call.ops) <=
              IF call.snap.reciprocal_method = "NR"
              THEN call.snap.reciprocal_nr_iters + 4
              ELSE call.snap.log_iterations + 6
        /\ call.outcome = "running" => ENABLED NextConfig
        /\ call.outcome \in {"returned", "raised"} => stack = <<>>

\* C21 witness: reciprocal of an input of unknown sign by Newton-Raphson
\* returned after one sign, one recursive call and ten updates.
C21_Witness ==
    /\ call.fn = "reciprocal" /\ call.outcome = "returned"
    /\ call.snap.reciprocal_method = "NR"
    /\ ~call.snap.reciprocal_all_pos
    /\ Len(ReciprocalEntries) = 2
    /\ Count("sign", call.ops) = 1
    /\ Count("nr_update", call.ops) = 10

\* C21 witness with input_in_01 set: one recursive call and no sign.
C21_WitnessIn01 ==
    /\ call.fn = "reciprocal" /\ call.outcome = "returned"
    /\ call.calls[1].arg
    /\ ~call.snap.reciprocal_all_pos
    /\ call.snap.reciprocal_method = "log"
    /\ Len(ReciprocalEntries) = 2
    /\ Count("sign", call.ops) = 0

-----------------------------------------------------------------------------
(* Tensors with several entries: index_add_, scatter_add_, pad, prod *)
(* A 1-dimensional tensor is [share : rank -> sequence of ring elements,  *)
(* scale]; entry j of it is the one-entry tensor Elem(t, j).               *)

Elem(t, j) == [share |-> [r \in Ranks |-> t.share[r][j]], scale |-> t.scale]

\* The tensor whose entries are the one-entry tensors ts, at scale s.
FromElems(ts, s) ==
    [share |-> [r \in Ranks |-> [j \in 1..Len(ts) |-> ts[j].share[r]]],
     scale |-> s]

Size(t) == Len(t.share[0])

\* reveal(): the ring element each entry reconstructs to.
VecReconstruct(t) == [j \in 1..Size(t) |-> Reconstruct(Elem(t, j))]

\* torch index_add_ / scatter_add_ along the only dimension: source entry i
\* is accumulated into entry index[i] (counted from 0) of v.
RECURSIVE AccumulateAt(_, _, _)
AccumulateAt(v, index, source) ==
    IF index = <<>> THEN v
    ELSE AccumulateAt([v EXCEPT ![Head(index) + 1] = Wrap(@ + Head(source))],
                      Tail(index), Tail(source))

EncodeAll(vals, s) == [i \in 1..Len(vals) |-> Encode(vals[i], s)]

\* index_add_ where every rank accumulates the encoded public tensor
IndexAdd_AllRanks(self, index, operand, other) ==
    [share |-> [r \in Ranks |->
                  AccumulateAt(self.share[r], index,
                               IF IsPublic(operand)
                               THEN EncodeAll(operand.val, self.scale)
                               ELSE other.share[r])],
     scale |-> self.scale]

\* index_add_(dim, index, tensor): a public tensor is encoded and accumulated
\* by rank 0 only; a shared one is accumulated by every rank, share by share.
IndexAdd(self, index, operand, other) ==
    [share |-> [r \in Ranks |->
                  IF IsPublic(operand)
                  THEN IF r = 0
                       THEN AccumulateAt(self.share[r], index,
                                         EncodeAll(operand.val, self.scale))
                       ELSE self.share[r]
                  ELSE AccumulateAt(self.share[r], index, other.share[r])],
     scale |-> self.scale]

\* scatter_add_(dim, index, other): as index_add_ for one dimension.
ScatterAdd(self, index, operand, other) ==
    [share |-> [r \in Ranks |->
                  IF IsPublic(operand)
                  THEN IF r = 0
                       THEN AccumulateAt(self.share[r], index,
                                         EncodeAll(operand.val, self.scale))
                       ELSE self.share[r]
                  ELSE AccumulateAt(self.share[r], index, other.share[r])],
     scale |-> self.scale]

\* torch.nn.functional.pad(share, (before, after), value = v)
PadWith(share, pad, v) ==
    [i \in 1..pad[1] |-> v] \o share \o [i \in 1..pad[2] |-> v]

\* pad where every rank pads with the encoded public value
PadValue_AllRanks(self, rank, operand, value) ==
    IF IsPublic(operand) THEN Encode(operand.val, self.scale)
    ELSE value.share[rank]

\* The value one rank pads with: the encoded public scalar on rank 0 and 0
\* elsewhere; its own share of a private 0-dimensional value.
PadValue(self, rank, operand, value) ==
    IF IsPublic(operand)
    THEN IF rank = 0 THEN Encode(operand.val, self.scale) ELSE 0
    ELSE value.share[rank]

\* pad(pad, mode = "constant", value): the result is a shallow copy with a
\* new share; value is the private tensor when operand is private.
Pad(self, pad, operand, value) ==
    IF operand.kind \in {"int", "float"} \/
       (IsPrivate(operand) /\ operand.dim = 0)
    THEN Outcome([share |-> [r \in Ranks |->
                               PadWith(self.share[r], pad,
                                       PadValue(self, r, operand, value))],
                  scale |-> self.scale],
                 NoEvents, "ok", ZeroShares, ZeroShares)
    ELSE Outcome(self, NoEvents,
                 IF IsPrivate(operand) THEN "AssertionError" ELSE "TypeError",
                 ZeroShares, ZeroShares)

\* One round of prod's loop that drops the odd remainder
ProdRound_DropRemainder(result, m, dbg) ==
    LET half == Size(result) \div 2
        outs == [j \in 1..half |->
                   Mul(TRUE, Elem(result, j), [kind |-> "private"],
                       Elem(result, half + j), m, m, dbg)]
    IN  Outcome(FromElems([j \in 1..half |-> outs[j].t], outs[1].t.scale),
                outs[1].ev,
                IF \E j \in 1..half : outs[j].status # "ok"
                THEN "ValueError" ELSE "ok",
                ZeroShares, ZeroShares)

\* One round of prod's loop on a tensor of size > 1: split into two halves
\* and the odd remainder, x.mul_(y), then cat with the remainder.  m is the
\* oracle's mask.
ProdRound(result, m, dbg) ==
    LET half == Size(result) \div 2
        outs == [j \in 1..half |->
                   Mul(TRUE, Elem(result, j), [kind |-> "private"],
                       Elem(result, half + j), m, m, dbg)]
        remainder == [j \in 1..(Size(result) % 2) |->
                        Elem(result, 2 * half + j)]
    IN  Outcome(FromElems([j \in 1..half |-> outs[j].t] \o remainder,
                          outs[1].t.scale),
                outs[1].ev,
                IF \E j \in 1..half : outs[j].status # "ok"
                THEN "ValueError" ELSE "ok",
                ZeroShares, ZeroShares)

-----------------------------------------------------------------------------
(* SpecVec: one operation on a tensor with several entries *)

\* Largest size of the tensor's dimension.
MaxDim == 4

PlainAt(j) == <<IF j % 2 = 0 THEN -(j \div 2) ELSE j, 1>>

\* index arguments for a tensor of size d (entries counted from 0): the
\* reversal, every source entry into entry 0, and a stride of two.
Indexes(d) ==
    {[i \in 1..d |-> d - i], [i \in 1..d |-> 0], [i \in 1..d |-> (2 * i) % d]}

AddendOperands(d) ==
    {[kind |-> "private"],
     [kind |-> "float", val |-> [i \in 1..d |-> <<2 * i - 3, 2>>]],
     [kind |-> "int_tensor", val |-> [i \in 1..d |-> <<i, 1>>]]}

PadOperands ==
    {[kind |-> "int", val |-> <<3, 1>>], [kind |-> "float", val |-> <<-5, 3>>],
     [kind |-> "private", dim |-> 0], [kind |-> "private", dim |-> 1],
     [kind |-> "tensor"]}

Pads == {<<1, 0>>, <<0, 2>>, <<1, 1>>}

InitVec ==
    /\ n \in WorldSizes
    /\ debug \in BOOLEAN
    /\ \E d \in 1..MaxDim, sx \in Scales, sy \in Scales :
         /\ x = FromElems([j \in 1..d |->
                             [share |-> Sharing(n, Encode(PlainAt(j), sx),
                                                FreshMask(n, 3 + j)),
                              scale |-> sx]], sx)
         /\ y = FromElems([j \in 1..d |->
                             [share |-> Sharing(n, Encode(PlainAt(j + 1), sy),
                                                FixedMask(n)),
                              scale |-> sy]], sy)
         /\ ideal = [factors |-> [j \in 1..d |-> <<j>>], rounds |-> 0]
    /\ res = Null
    /\ last = NoOp
    /\ steps = 0
    /\ ev = NoEvents
    /\ oracle = <<>>
    /\ status = "ok"
    /\ ShareIdle
    /\ SchedIdle
    /\ ConfigIdle

\* The effect of an operation on x that ended as `out`.
ReturnVec(op, inplace, operand, out) ==
    /\ steps = 0
    /\ steps' = 1
    /\ last' = [op |-> op, inplace |-> inplace, operand |-> operand, pre |-> x]
    /\ ev' = out.ev
    /\ status' = out.status
    /\ IF inplace THEN x' = out.t /\ res' = res
       ELSE x' = x /\ res' = IF out.status = "ok" THEN out.t ELSE Null
    /\ UNCHANGED <<n, y, ideal, debug, oracle>>
    /\ UNCHANGED <<shareVars, schedVars, configVars>>

AllEncodable(c, s) ==
    IsPublic(c) => \A i \in DOMAIN c.val : Encodable(c.val[i], s)

\* index_add, index_add_
IndexAddOp ==
    \E inplace \in BOOLEAN, index \in Indexes(Size(x)),
       c \in AddendOperands(Size(x)) :
        /\ AllEncodable(c, x.scale)
        /\ ReturnVec("index_add", inplace, c @@ [index |-> index],
                     Outcome(IndexAdd(x, index, c, y), NoEvents, "ok",
                             ZeroShares, ZeroShares))

\* scatter_add, scatter_add_
ScatterAddOp ==
    \E inplace \in BOOLEAN, index \in Indexes(Size(x)),
       c \in AddendOperands(Size(x)) :
        /\ AllEncodable(c, x.scale)
        /\ ReturnVec("scatter_add", inplace, c @@ [index |-> index],
                     Outcome(ScatterAdd(x, index, c, y), NoEvents, "ok",
                             ZeroShares, ZeroShares))

\* pad(pad, value = c); a private value is the first entry of y.
PadOp ==
    \E pad \in Pads, c \in PadOperands :
        /\ IsPublic(c) => Encodable(c.val, x.scale)
        /\ ReturnVec("pad", FALSE, c @@ [pad |-> pad],
                     Pad(x, pad, c, Elem(y, 1)))

\* add, add_, sub, sub_ of the shared tensor y, entry by entry
AddSubVec ==
    \E op \in {"add", "sub"}, inplace \in BOOLEAN :
        ReturnVec(op, inplace, [kind |-> "private"],
                  Outcome(FromElems([j \in 1..Size(x) |->
                                       Additive(op, Elem(x, j),
                                                [kind |-> "private"],
                                                Elem(y, j))],
                                    Additive(op, Elem(x, 1),
                                             [kind |-> "private"],
                                             Elem(y, 1)).scale),
                          NoEvents, "ok", ZeroShares, ZeroShares))

\* prod(dim): result = self.clone()
ProdBegin ==
    /\ steps = 0
    /\ steps' = 1
    /\ last' = [op |-> "prod", inplace |-> FALSE,
                operand |-> [kind |-> "none"], pre |-> x]
    /\ res' = x
    /\ UNCHANGED <<n, x, y, ideal, debug, ev, oracle, status>>
    /\ UNCHANGED <<shareVars, schedVars, configVars>>

\* prod: one pass of `while result.size(dim) > 1`
ProdLoop ==
    /\ last.op = "prod" /\ steps = 1 /\ status = "ok"
    /\ Size(res) > 1
    /\ \E m \in OracleMasks :
         \E out \in {ProdRound(res, m, debug)} :
            /\ res' = out.t
            /\ ev' = [r \in Ranks |-> ev[r] \o out.ev[r]]
            /\ status' = out.status
    /\ LET half == Size(res) \div 2
           f == ideal.factors
       IN  ideal' = [factors |->
                        [j \in 1..half |-> f[j] \o f[half + j]]
                        \o [j \in 1..(Size(res) % 2) |-> f[2 * half + j]],
                     rounds |-> ideal.rounds + 1]
    /\ UNCHANGED <<n, x, y, last, steps, debug, oracle>>
    /\ UNCHANGED <<shareVars, schedVars, configVars>>

\* prod: the loop is over, the result is squeezed and returned
ProdEnd ==
    /\ last.op = "prod" /\ steps = 1 /\ status = "ok"
    /\ Size(res) = 1
    /\ steps' = 2
    /\ UNCHANGED <<n, x, y, res, ideal, last, debug, ev, oracle, status>>
    /\ UNCHANGED <<shareVars, schedVars, configVars>>

NextVec ==
    \/ IndexAddOp \/ ScatterAddOp \/ PadOp \/ AddSubVec
    \/ ProdBegin \/ ProdLoop \/ ProdEnd

SpecVec == InitVec /\ [][NextVec]_vars

\* The ring elements the addend of the last index_add / scatter_add stands
\* for: the encoded public tensor, or what the shared addend reconstructs to.
AddendRing ==
    IF IsPublic(last.operand)
    THEN EncodeAll(last.operand.val, last.pre.scale)
    ELSE VecReconstruct(y)

-----------------------------------------------------------------------------
(* Claims about tensors with several entries (checked under SpecVec) *)

\* C11: index_add_ and scatter_add_ (and their out-of-place forms) add the
\* addend to the reconstructed tensor exactly once for every party count: a
\* public addend is encoded and applied by rank 0 only, every other rank's
\* share is unchanged; a private addend is applied by every rank with its
\* own share of the addend.
C11_AddendAddedOnce ==
    last.op \in {"index_add", "scatter_add"} =>
        /\ VecReconstruct(Result) =
             AccumulateAt(VecReconstruct(last.pre), last.operand.index,
                          AddendRing)
        /\ IsPublic(last.operand) =>
             /\ Result.share[0] =
                  AccumulateAt(last.pre.share[0], last.operand.index,
                               AddendRing)
             /\ \A r \in Ranks \ {0} : Result.share[r] = last.pre.share[r]
        /\ IsPrivate(last.operand) =>
             \A r \in Ranks :
                Result.share[r] =
                  AccumulateAt(last.pre.share[r], last.operand.index,
                               y.share[r])
        /\ ~last.inplace => x = last.pre

\* C11 witness: five parties ran index_add_ with a public float tensor whose
\* index sends every source entry into entry 0; the tensor changed.
C11_Witness ==
    /\ n = 5
    /\ last.op = "index_add" /\ last.inplace
    /\ last.operand.kind = "float"
    /\ Size(x) = 3
    /\ last.operand.index = <<0, 0, 0>>
    /\ VecReconstruct(x) # VecReconstruct(last.pre)
    /\ x.share[0] # last.pre.share[0]

\* The ring element the last pad filled with: the encoded public scalar, or
\* what the private 0-dimensional value reconstructs to.
PadRing ==
    IF IsPublic(last.operand)
    THEN Encode(last.operand.val, last.pre.scale)
    ELSE Reconstruct(Elem(y, 1))

\* C12: after a constant pad that returned, every padded position
\* reconstructs to the pad value and every original position to its
\* original value, for every party count: with a public scalar rank 0 pads
\* with the encoded value and every other rank with zero; with a private
\* 0-dimensional value every rank pads with its own share of it; no party
\* communicates and the receiver is unchanged.
C12_PadReconstructs ==
    (last.op = "pad" /\ status = "ok") =>
        /\ VecReconstruct(res) =
             PadWith(VecReconstruct(last.pre), last.operand.pad, PadRing)
        /\ \A r \in Ranks :
             res.share[r] =
               PadWith(last.pre.share[r], last.operand.pad,
                       IF IsPublic(last.operand)
                       THEN (IF r = 0 THEN PadRing ELSE 0)
                       ELSE y.share[r][1])
        /\ res.scale = last.pre.scale
        /\ ev = NoEvents
        /\ x = last.pre

\* C12 witness: five parties padded a tensor on both sides with a public
\* float whose encoding is not zero.
C12_Witness ==
    /\ n = 5
    /\ last.op = "pad" /\ status = "ok"
    /\ last.operand.kind = "float"
    /\ last.operand.pad = <<1, 1>>
    /\ Size(last.pre) >= 2
    /\ PadRing # 0
    /\ Size(res) = Size(last.pre) + 2

\* C12 witness for a private value: three parties padded with a shared
\* 0-dimensional value whose shares are not all zero.
C12_WitnessPrivate ==
    /\ n = 3
    /\ last.op = "pad" /\ status = "ok"
    /\ IsPrivate(last.operand)
    /\ \E r \in Ranks : y.share[r][1] # 0
    /\ PadRing # 0

-----------------------------------------------------------------------------
(* Claims about the constructor's checks (checked under SpecShare) *)

\* C13 as stated: whenever src is not a party rank, the src party supplies
\* no tensor, or broadcast_size is false and some party supplies neither
\* tensor nor size, the construction fails with an error on every party and
\* no party holds a share.
C13_EveryBadSrcFails ==
    (ctor # NoCtor /\
     (\/ ctor.args.src \notin Ranks
      \/ ctor.args.tensor[ctor.args.src] = None
      \/ /\ ~ctor.args.broadcast_size
         /\ \E r \in Ranks : /\ ctor.args.tensor[r] = None
                             /\ ctor.args.size[r] = None)) =>
        \A r \in Ranks : ctor.status[r] = "AssertionError"

\* C13 (amended): on each party the constructor raises AssertionError before
\* that party draws from its generators when src is neither SENTINEL nor a
\* party rank, when the party is src and supplies no tensor, or when
\* broadcast_size is false and the party supplies neither tensor nor size;
\* with src = SENTINEL it returns without error, without share and without
\* drawing; a party only gets a share when src is a party rank.
C13_FailsBeforeShares ==
    [][(ctor = NoCtor /\ ctor' # NoCtor) =>
        \A r \in Ranks :
          LET a == ctor'.args
              bad == /\ a.src # SENTINEL
                     /\ \/ a.src \notin Ranks
                        \/ r = a.src /\ a.tensor[r] = None
                        \/ /\ ~a.broadcast_size
                           /\ a.tensor[r] = None
                           /\ a.size[r] = None
          IN  /\ bad => /\ ctor'.status[r] = "AssertionError"
                        /\ gen'[r] = gen[r]
                        /\ x'.share[r] = 0
              /\ a.src = SENTINEL => /\ ctor'.status[r] = "sentinel"
                                     /\ gen'[r] = gen[r]
                                     /\ x'.share[r] = 0
                                     /\ x'.scale = 0
              /\ ctor'.status[r] = "ok" => a.src \in Ranks]_vars

\* C13 witness: of three parties, src = 1 passed no tensor and raised before
\* drawing, while the two others, which passed a size, drew their shares.
C13_Witness ==
    /\ n = 3
    /\ ctor # NoCtor
    /\ ctor.args.src = 1
    /\ ctor.args.tensor[1] = None
    /\ ctor.status[1] = "AssertionError"
    /\ gen[1][0].pos = 0
    /\ ctor.status[0] = "ok" /\ ctor.status[2] = "ok"
    /\ gen[0][0].pos = 1

\* C13 witness for a src that is no rank: src = world_size raised everywhere.
C13_WitnessOutOfRange ==
    /\ ctor # NoCtor
    /\ ctor.args.src = n
    /\ \A r \in Ranks : ctor.status[r] = "AssertionError" /\ gen[r][0].pos = 0

\* C14: add, add_, sub, sub_ of two shared tensors whose scales differ is
\* rejected with an error, and an additive operation that returns has the
\* scale common to both inputs.
C14_MismatchRejected ==
    (last.op \in {"add", "sub"} /\ IsPrivate(last.operand)) =>
        /\ last.pre.scale # y.scale => status # "ok"
        /\ status = "ok" => /\ Result.scale = last.pre.scale
                            /\ Result.scale = y.scale

-----------------------------------------------------------------------------
(* SpecRng: one call of generate_random_ring_element *)

\* torch.randint(low, high, size): every tensor of `size` entries drawn from
\* low (inclusive) to high (exclusive).
RandInt(low, high, size) == [1..size -> low..(high - 1)]

\* generate_random_ring_element(size, ring_size): the tensors it can return.
generate_random_ring_element(size, ring_size) ==
    RandInt(-(ring_size \div 2), (ring_size - 1) \div 2, size)

\* The sizes asked for.
RngSizes == {1, 2}

InitRng ==
    /\ n = 2
    /\ x = Null
    /\ y = Null
    /\ res = Null
    /\ ideal = [x |-> 0, y |-> 0, res |-> 0]
    /\ last = NoOp
    /\ steps = 0
    /\ gen = <<>>
    /\ przs = <<>>
    /\ ctor = <<>>
    /\ tensors = <<>>
    /\ ProdIdle
    /\ SchedIdle
    /\ ConfigIdle

\* The call returns rand_element; przs holds the tensor returned.
ReturnElement(rand_element) ==
    /\ steps = 0
    /\ steps' = 1
    /\ przs' = rand_element
    /\ last' = [NoOp EXCEPT !.op = "generate_random_ring_element"]
    /\ UNCHANGED <<n, x, y, res, ideal, gen, ctor, tensors>>
    /\ UNCHANGED <<prodVars, schedVars, configVars>>

\* generate_random_ring_element(size) with the default ring size
GenerateRandomRingElement ==
    \E size \in RngSizes :
        \E rand_element \in generate_random_ring_element(size, RingSize) :
            ReturnElement(rand_element)

\* A call that returns the ring element v in some entry.
Returns(v) ==
    \E size \in RngSizes :
        \E rand_element \in generate_random_ring_element(size, RingSize) :
            /\ \E i \in 1..size : rand_element[i] = v
            /\ ReturnElement(rand_element)

NextRng == GenerateRandomRingElement

SpecRng == InitRng /\ [][NextRng]_vars

\* C15: generate_random_ring_element with the default ring size can return
\* every signed value of the ring, -2^(L-1) and 2^(L-1) - 1 included, and
\* returns no value outside it.
C15_FullSignedRange ==
    /\ steps = 0 => \A v \in Ring : ENABLED Returns(v)
    /\ steps = 1 => \A i \in DOMAIN przs : przs[i] \in Ring

\* ceil(log2 d) for d >= 1: the least k with 2^k >= d.
CeilLog2(d) == CHOOSE k \in 0..d : Pow2(k) >= d /\ (k = 0 \/ Pow2(k - 1) < d)

\* The product in the ring of the entries of vals at the positions js.
RECURSIVE RingProduct(_, _)
RingProduct(js, vals) ==
    IF js = <<>> THEN 1
    ELSE Wrap(vals[Head(js)] * RingProduct(Tail(js), vals))

\* C16: prod terminates for every size d >= 1 of the reduced dimension: a
\* round maps the size to floor(size/2) + (size mod 2), strictly smaller
\* while size > 1; the loop ends at size 1 after exactly ceil(log2 d)
\* interactive multiplications, and each of the d entries contributes to the
\* final product exactly once, the odd remainder being carried unmultiplied.
C16_ProdTerminates ==
    [][last'.op = "prod" =>
        LET d == Size(last'.pre)
            f == ideal'.factors
        IN  /\ ideal'.rounds + CeilLog2(Size(res')) = CeilLog2(d)
            /\ \A r \in Ranks : Count("beaver.mul", ev'[r]) = ideal'.rounds
            /\ Len(f) = Size(res')
            /\ \A j \in 1..d :
                 Cardinality({ik \in (1..Len(f)) \X (1..d) :
                                 /\ ik[2] <= Len(f[ik[1]])
                                 /\ f[ik[1]][ik[2]] = j}) = 1
            /\ (last'.pre.scale = 1 /\ status' = "ok") =>
                 \A i \in 1..Len(f) :
                    VecReconstruct(res')[i] =
                      RingProduct(f[i], VecReconstruct(last'.pre))
            /\ (last.op = "prod" /\ ideal'.rounds # ideal.rounds) =>
                 /\ Size(res) > 1
                 /\ Size(res') = (Size(res) \div 2) + (Size(res) % 2)
                 /\ Size(res') < Size(res)
                 /\ Size(res) % 2 = 1 =>
                      Elem(res', Size(res')) = Elem(res, Size(res))
            /\ (steps' = 1 /\ status' = "ok") =>
                 IF Size(res') > 1 THEN (ENABLED ProdLoop)' ELSE (ENABLED ProdEnd)'
            /\ steps' = 2 => /\ Size(res') = 1
                             /\ ideal'.rounds = CeilLog2(d)]_vars

\* C16 witness: prod over three entries ended after two rounds; the third
\* entry was carried through the first round and multiplied in the second.
C16_Witness ==
    /\ n = 3
    /\ last.op = "prod" /\ steps = 2 /\ status = "ok"
    /\ Size(last.pre) = 3
    /\ ideal.rounds = 2
    /\ ideal.factors = <<<<1, 2, 3>>>>
    /\ last.pre.scale = 1
    /\ VecReconstruct(res) = <<-3>>

-----------------------------------------------------------------------------
(* SpecTrig: _eix, statement by statement, on the plaintext the shared      *)
(* tensors stand for.  A complex value (re + i * im) / den is kept as three *)
(* integers, den a power of two, so that every product is exact.           *)

\* The values of config.trig_iterations explored.
TrigIterations == {0, 1, 2, 3}

\* The plaintexts of self.
TrigInputs == (-6)..6

Complex(re, im, den) == [re |-> re, im |-> im, den |-> den]

\* (a + bi)^2 -> (a^2 - b^2) + (2ab)i
ComplexSquare(z) ==
    Complex(z.re * z.re - z.im * z.im, 2 * z.re * z.im, z.den * z.den)

\* z squared k times
RECURSIVE SquaredTimes(_, _)
SquaredTimes(z, k) ==
    IF k = 0 THEN z ELSE SquaredTimes(ComplexSquare(z), k - 1)

\* Two complex values are the same number.
SameComplex(z, w) ==
    IF z.den = w.den THEN z.re = w.re /\ z.im = w.im
    ELSE /\ z.re * w.den = w.re * z.den
         /\ z.im * w.den = w.im * z.den

NoEix == [fn |-> "none", pc |-> "none", iterations |-> 0, i |-> 0,
          z |-> Complex(1, 0, 1), squarings |-> 0, calls |-> <<>>]

InitTrig ==
    /\ config \in [trig_iterations : TrigIterations]
    /\ ideal \in [x : TrigInputs]
    /\ call = NoEix
    /\ stack = <<>>
    /\ exitLog = <<>>
    /\ n = 2
    /\ x = Null
    /\ y = Null
    /\ res = Null
    /\ last = NoOp
    /\ steps = 0
    /\ ShareIdle
    /\ ProdIdle
    /\ SchedIdle

TrigFrame ==
    /\ UNCHANGED <<config, stack, exitLog>>
    /\ UNCHANGED <<engineVars, shareVars, prodVars, schedVars>>

\* iterations = config.trig_iterations; re = 1; im = self.div(2 ** iterations)
EixBegin ==
    /\ call.pc = "none"
    /\ call' = [NoEix EXCEPT !.fn = "_eix", !.pc = "first",
                             !.iterations = config.trig_iterations,
                             !.z = Complex(Pow2(config.trig_iterations),
                                           ideal.x,
                                           Pow2(config.trig_iterations)),
                             !.calls = <<"div">>]
    /\ TrigFrame

\* re -= im.square(); im *= 2 (re is public and = 1)
EixFirst ==
    /\ call.pc = "first"
    /\ LET im == call.z.im
           den == call.z.den
           im2 == im * im
           re1 == den * den - im2
           im1 == 2 * im * den
       IN  call' = [call EXCEPT !.pc = "loop",
                                !.z = Complex(re1, im1, den * den),
                                !.squarings = @ + 1,
                                !.calls = @ \o <<"square">>]
    /\ TrigFrame

\* a2 = re.square(); b2 = im.square(); im = im.mul_(re); im._tensor *= 2;
\* re = a2 - b2
EixBody(z) ==
    LET a2 == z.re * z.re
        b2 == z.im * z.im
        im == z.im * z.re
        im_2 == im * 2
        re == a2 - b2
    IN  Complex(re, im_2, z.den * z.den)

\* One pass of `for _ in range(iterations - 1)`
EixLoop ==
    /\ call.pc = "loop"
    /\ call.i < call.iterations - 1
    /\ call' = [call EXCEPT !.i = @ + 1,
                            !.z = EixBody(call.z),
                            !.squarings = @ + 1,
                            !.calls = @ \o <<"square", "square", "mul">>]
    /\ TrigFrame

\* return re, im
EixReturn ==
    /\ call.pc = "loop"
    /\ ~(call.i < call.iterations - 1)
    /\ call' = [call EXCEPT !.pc = "returned"]
    /\ TrigFrame

NextTrig == EixBegin \/ EixFirst \/ EixLoop \/ EixReturn

SpecTrig == InitTrig /\ [][NextTrig]_vars

\* z = 1 + i * (x / 2^d), the value _eix is to start from
EixStart == Complex(Pow2(config.trig_iterations), ideal.x,
                    Pow2(config.trig_iterations))

-----------------------------------------------------------------------------
(* Claims about _eix (checked under SpecTrig) *)

\* C18: for every configured trig_iterations d, _eix starts from
\* z = 1 + i * (x / 2^d) and performs exactly d complex squarings in total,
\* the first with the public real part 1 and d - 1 general ones, each of
\* which computes Re^2 - Im^2 and 2 * Re * Im from the values held before.
C18_SquaresDTimes ==
    [][(call'.fn = "_eix") =>
        /\ call.pc = "none" => SameComplex(call'.z, EixStart)
        /\ call'.squarings # call.squarings =>
             SameComplex(call'.z, ComplexSquare(call.z))
        /\ call'.pc = "returned" =>
             /\ call'.squarings = config.trig_iterations
             /\ SameComplex(call'.z,
                            SquaredTimes(EixStart, config.trig_iterations))]_vars

\* For trig_iterations d >= 1 the same holds: _eix returns z^(2^d) after d
\* squarings.  (With d = 0 the first squaring is still made.)
EixSquaresForPositiveD ==
    [][(call'.fn = "_eix" /\ config.trig_iterations >= 1) =>
        /\ call.pc = "none" => SameComplex(call'.z, EixStart)
        /\ call'.squarings # call.squarings =>
             SameComplex(call'.z, ComplexSquare(call.z))
        /\ call'.pc = "returned" =>
             /\ call'.squarings = config.trig_iterations
             /\ Count("square", call'.calls) = 2 * config.trig_iterations - 1
             /\ Count("mul", call'.calls) = config.trig_iterations - 1
             /\ SameComplex(call'.z,
                            SquaredTimes(EixStart, config.trig_iterations))]_vars

-----------------------------------------------------------------------------
(* SpecAlias: objects and the torch tensors they refer to                  *)
(* An ArithmeticSharedTensor object is [_tensor, encoder]: the identity of *)
(* its torch tensor and the scale of its encoder.  tensors maps a tensor's *)
(* identity to its data on every rank.  x is the receiver `self`, y a      *)
(* second shared tensor, res the object an out-of-place call returns.      *)

NoObject == [_tensor |-> 0, encoder |-> 0]

\* The tensor value an object stands for.
Deref(obj, mem) == [share |-> mem[obj._tensor], scale |-> obj.encoder]

\* shallow_copy(): a new object with the same encoder and the same torch
\* tensor.
shallow_copy(obj, mem) == [obj |-> obj, mem |-> mem]

\* clone() without share.clone(): the copy keeps the receiver's torch tensor
clone_Shallow(obj, mem) == shallow_copy(obj, mem)

\* clone(), a regular function: shallow_copy, then
\* result.share = result.share.clone(), a new torch tensor with the same data.
clone(obj, mem) ==
    LET result == shallow_copy(obj, mem)
    IN  [obj |-> [result.obj EXCEPT !._tensor = Len(mem) + 1],
         mem |-> Append(result.mem, result.mem[result.obj._tensor])]

\* An in-place torch call on the tensor of obj (add_, sub_, mul_, div_, neg_,
\* set_, index_add_, scatter_add_, scatter_): the same tensor holds t's data.
WriteInPlace(obj, mem, t) ==
    [obj |-> [obj EXCEPT !.encoder = t.scale],
     mem |-> [mem EXCEPT ![obj._tensor] = t.share]]

\* obj.share = <a tensor torch has just made>
Rebind(obj, mem, t) ==
    [obj |-> [_tensor |-> Len(mem) + 1, encoder |-> t.scale],
     mem |-> Append(mem, t.share)]

Store(mode, out) == [mode |-> mode, out |-> out]

\* The stores of a method, in order, on the object `obj`: a store whose
\* computation raised ends the method; an in-place torch call has written
\* by then, an assignment has not happened.
RECURSIVE ApplyStores(_, _, _, _)
ApplyStores(obj, mem, events, stores) ==
    IF stores = <<>>
    THEN [obj |-> obj, mem |-> mem, ev |-> events, status |-> "ok"]
    ELSE LET s == Head(stores)
             done == IF s.mode = "write"
                     THEN WriteInPlace(obj, mem, s.out.t)
                     ELSE IF s.out.status = "ok"
                          THEN Rebind(obj, mem, s.out.t)
                          ELSE [obj |-> obj, mem |-> mem]
             evs == [r \in Ranks |-> events[r] \o s.out.ev[r]]
         IN  IF s.out.status = "ok"
             THEN ApplyStores(done.obj, done.mem, evs, Tail(stores))
             ELSE [obj |-> done.obj, mem |-> done.mem, ev |-> evs,
                   status |-> s.out.status]

\* An operation that cannot raise and makes no call.
Ok(t) == Outcome(t, NoEvents, "ok", ZeroShares, ZeroShares)

\* The tensor of the entries' outcomes: it raised if one of them did.
Gather(outs) ==
    Outcome(FromElems([j \in 1..Len(outs) |-> outs[j].t], outs[1].t.scale),
            outs[1].ev,
            IF \E j \in 1..Len(outs) : outs[j].status # "ok"
            THEN "ValueError" ELSE "ok",
            ZeroShares, ZeroShares)

\* torch scatter_ along the only dimension: source entry i is written into
\* entry index[i] (counted from 0) of v.
RECURSIVE ScatterAt(_, _, _)
ScatterAt(v, index, source) ==
    IF index = <<>> THEN v
    ELSE ScatterAt([v EXCEPT ![Head(index) + 1] = Head(source)],
                   Tail(index), Tail(source))

RECURSIVE SeqSum(_)
SeqSum(s) == IF s = <<>> THEN 0 ELSE Head(s) + SeqSum(Tail(s))

\* sum(), a regular function: share.sum() on every rank.
Sum(t) ==
    [share |-> [r \in Ranks |-> <<Wrap(SeqSum(t.share[r]))>>],
     scale |-> t.scale]

\* prod's loop and final squeeze: every round assigns the round's product
\* tensor to result.
RECURSIVE ProdStores(_, _, _)
ProdStores(result, m, dbg) ==
    IF Size(result) <= 1 THEN <<Store("rebind", Ok(result))>>
    ELSE LET out == ProdRound(result, m, dbg)
         IN  <<Store("rebind", out)>> \o
             (IF out.status = "ok" THEN ProdStores(out.t, m, dbg) ELSE <<>>)

\* index arguments of scatter for a tensor of size d: the reversal and a
\* rotation (every entry is written once).
ScatterIndexes(d) == {[i \in 1..d |-> d - i], [i \in 1..d |-> i % d]}

InitAlias ==
    /\ n \in WorldSizes
    /\ debug \in BOOLEAN
    /\ \E d \in 1..MaxDim, sx \in Scales, sy \in Scales, shared \in BOOLEAN :
         LET xdata == FromElems([j \in 1..d |->
                                   [share |-> Sharing(n, Encode(PlainAt(j), sx),
                                                      FreshMask(n, 3 + j)),
                                    scale |-> sx]], sx).share
             ydata == FromElems([j \in 1..d |->
                                   [share |-> Sharing(n,
                                                      Encode(PlainAt(j + 1), sy),
                                                      FixedMask(n)),
                                    scale |-> sy]], sy).share
         IN  /\ x = [_tensor |-> 1, encoder |-> sx]
             /\ IF shared
                THEN /\ sy = sx
                     /\ y = shallow_copy(x, <<xdata>>).obj
                     /\ tensors = <<xdata>>
                ELSE /\ y = [_tensor |-> 2, encoder |-> sy]
                     /\ tensors = <<xdata, ydata>>
    /\ res = NoObject
    /\ ideal = <<>>
    /\ last = NoOp
    /\ steps = 0
    /\ ev = NoEvents
    /\ oracle = <<>>
    /\ status = "ok"
    /\ gen = <<>>
    /\ przs = <<>>
    /\ ctor = <<>>
    /\ SchedIdle
    /\ ConfigIdle

\* The values of the receiver and of the shared operand.
Self == Deref(x, tensors)

Other == Deref(y, tensors)

\* One call of the method op on x: in place the result object is self, out
\* of place it is self.clone(); the method's stores go to the result
\* object, in order: an in-place torch call writes the object's tensor, an
\* assignment to result.share gives it another one.
Call(op, inplace, operand, stores) ==
    /\ steps = 0
    /\ steps' = 1
    /\ last' = [op |-> op, inplace |-> inplace, operand |-> operand,
                pre |-> [x |-> x, y |-> y, tensors |-> tensors]]
    /\ LET result == IF inplace THEN [obj |-> x, mem |-> tensors]
                     ELSE clone(x, tensors)
       IN  \E done \in {ApplyStores(result.obj, result.mem, NoEvents,
                                     stores)} :
              /\ tensors' = done.mem
              /\ ev' = done.ev
              /\ status' = done.status
              /\ IF inplace THEN x' = done.obj /\ res' = res
                 ELSE x' = x /\ res' = IF done.status = "ok" THEN done.obj
                                      ELSE NoObject
    /\ UNCHANGED <<n, y, ideal, debug, oracle, gen, przs, ctor>>
    /\ UNCHANGED <<schedVars, configVars>>

\* add, add_, sub, sub_: result.share = getattr(result.share, op)(y), where
\* op is add_ or sub_ in place
AddSubCall ==
    \E op \in {"add", "sub"}, inplace \in BOOLEAN,
       c \in PublicOperands \cup {[kind |-> "private"]} :
        /\ IsPublic(c) => Encodable(c.val, x.encoder)
        /\ Call(op, inplace, c,
                <<Store(IF inplace THEN "write" ELSE "rebind",
                        Ok(FromElems([j \in 1..Size(Self) |->
                                        Additive(op, Elem(Self, j), c,
                                                 Elem(Other, j))],
                                     Self.scale)))>>)

\* mul, mul_: a shared operand's product is set_ into result.share, mul_
\* multiplies in place, mul by a public value assigns a new tensor
MulCall ==
    \E inplace \in BOOLEAN, m \in OracleMasks,
       c \in {o \in ProductOperands : o.kind # "int_tensor"} :
        /\ IsPublic(c) => Encodable(c.val, x.encoder)
        /\ Call("mul", inplace, c,
                <<Store(IF inplace \/ IsPrivate(c) THEN "write" ELSE "rebind",
                        Gather([j \in 1..Size(Self) |->
                                  Mul(inplace, Elem(Self, j), c,
                                      Elem(Other, j), m, m, debug)]))>>)

\* div, div_ by a public integer: self.share = self.share.div_(y)
DivCall ==
    \E inplace \in BOOLEAN, m \in OracleMasks, k \in Divisors :
        Call("div", inplace, [kind |-> "int", val |-> <<k, 1>>],
             <<Store("write",
                     Gather([j \in 1..Size(Self) |->
                               DivInt(Elem(Self, j), k,
                                      BeaverWraps(Elem(Self, j), m),
                                      debug)]))>>)

\* neg, neg_: self.share.neg_()
NegCall ==
    \E inplace \in BOOLEAN :
        Call("neg", inplace, NoOperand,
             <<Store("write",
                     Ok([share |-> [r \in Ranks |->
                                      [j \in 1..Size(Self) |->
                                         NegShare(Self.share[r][j])]],
                         scale |-> Self.scale]))>>)

\* square, square_: self.share = beaver.square(self).div_(scale).share
SquareCall ==
    \E inplace \in BOOLEAN, m \in OracleMasks :
        Call("square", inplace, NoOperand,
             <<Store("rebind",
                     Gather([j \in 1..Size(Self) |->
                               Square(Elem(Self, j), m, m, debug)]))>>)

\* index_add, index_add_: self._tensor.index_add_(dim, index, tensor)
IndexAddCall ==
    \E inplace \in BOOLEAN, index \in Indexes(Size(Self)),
       c \in AddendOperands(Size(Self)) :
        /\ AllEncodable(c, x.encoder)
        /\ Call("index_add", inplace, c @@ [index |-> index],
                <<Store("write", Ok(IndexAdd(Self, index, c, Other)))>>)

\* scatter_add, scatter_add_: self.share.scatter_add_(dim, index, other)
ScatterAddCall ==
    \E inplace \in BOOLEAN, index \in Indexes(Size(Self)),
       c \in AddendOperands(Size(Self)) :
        /\ AllEncodable(c, x.encoder)
        /\ Call("scatter_add", inplace, c @@ [index |-> index],
                <<Store("write", Ok(ScatterAdd(Self, index, c, Other)))>>)

\* scatter, scatter_ with a shared src:
\* self.share.scatter_(dim, index, src.share)
ScatterCall ==
    \E inplace \in BOOLEAN, index \in ScatterIndexes(Size(Self)) :
        Call("scatter", inplace, [kind |-> "private", index |-> index],
             <<Store("write",
                     Ok([share |-> [r \in Ranks |->
                                      ScatterAt(Self.share[r], index,
                                                Other.share[r])],
                         scale |-> Self.scale]))>>)

\* prod(dim)
ProdCall ==
    \E m \in OracleMasks :
        Call("prod", FALSE, NoOperand, ProdStores(Self, m, debug))

\* dot(y): result.mul_(y).sum() on result = self.clone()
DotCall ==
    \E m \in OracleMasks :
        \E product \in {Gather([j \in 1..Size(Self) |->
                                  Mul(TRUE, Elem(Self, j),
                                      [kind |-> "private"], Elem(Other, j),
                                      m, m, debug)])} :
            Call("dot", FALSE, [kind |-> "private"],
                 <<Store("write", product),
                   Store("rebind", Ok(Sum(product.t)))>>)

NextAlias ==
    \/ AddSubCall \/ MulCall \/ DivCall \/ NegCall \/ SquareCall
    \/ IndexAddCall \/ ScatterAddCall \/ ScatterCall \/ ProdCall \/ DotCall

SpecAlias == InitAlias /\ [][NextAlias]_vars

-----------------------------------------------------------------------------
(* Claims about out-of-place operations (checked under SpecAlias) *)

OutOfPlaceOps ==
    {"add", "sub", "mul", "div", "neg", "square", "prod", "dot", "index_add",
     "scatter_add", "scatter"}

\* C23: the out-of-place operations add, sub, mul, div, neg, square, prod,
\* dot, index_add, scatter_add and scatter leave the receiver's share values
\* and encoder unchanged on every party, and leave a private second
\* operand's share unchanged; a receiver whose share or encoder changed was
\* the receiver of an underscore-suffixed in-place variant.
C23_OutOfPlaceKeepsOperands ==
    last.op \in OutOfPlaceOps =>
        /\ ~last.inplace =>
             /\ x.encoder = last.pre.x.encoder
             /\ \A r \in Ranks :
                  tensors[x._tensor][r] =
                    last.pre.tensors[last.pre.x._tensor][r]
             /\ y.encoder = last.pre.y.encoder
             /\ \A r \in Ranks :
                  tensors[y._tensor][r] =
                    last.pre.tensors[last.pre.y._tensor][r]
        /\ Deref(x, tensors) # Deref(last.pre.x, last.pre.tensors) =>
             last.inplace

\* C23 witness: three parties ran the out-of-place index_add with a shared
\* tensor; the returned object has a tensor of its own whose data differ
\* from the receiver's, and the receiver holds what it held before.
C23_Witness ==
    /\ n = 3
    /\ last.op = "index_add" /\ ~last.inplace
    /\ IsPrivate(last.operand)
    /\ res._tensor \notin {x._tensor, y._tensor}
    /\ tensors[res._tensor] # tensors[x._tensor]
    /\ tensors[x._tensor] = last.pre.tensors[x._tensor]

\* C23 witness of the in-place side: neg_ changed the receiver's share.
C23_WitnessInPlace ==
    /\ last.op = "neg" /\ last.inplace
    /\ x._tensor = last.pre.x._tensor
    /\ tensors[x._tensor] # last.pre.tensors[x._tensor]

=============================================================================
